---- MODULE Spec2Model ----
(***************************************************************************)
(* Render-state synchronization engine of the Mudkip markdown viewer       *)
(* (src/src/main.js): the document session, the file/folder watch          *)
(* reconciliation and the handlers of the external event channels.         *)
(***************************************************************************)
EXTENDS Integers, Sequences, FiniteSets, TLC

\* ------------------------------------------------------------------ bounds
NumFiles == 2
NumFolders == 2
MaxInFlight == 1
MaxBlocks == 3
MaxY == 4
MaxLine == 3
MaxScrollHeight == 6
FloatBits == 5
MaxDeliveries == 1
MaxTokens == 2
\* open-file events of a run
MaxOpens == 3

MaxScheduled == 2

\* ------------------------------------------------------------- data domain
\* null / undefined / missing field
None == 0
\* a payload content markdown.render cannot take (it throws)
BadContent == 0

FilePaths == 1..NumFiles
FolderPaths == 1..NumFolders
Contents == {1, 2}

RECURSIVE InjectiveSeqs(_)
InjectiveSeqs(S) ==
  {<<>>} \cup UNION {{<<x>> \o q : q \in InjectiveSeqs(S \ {x})} : x \in S}

Range(q) == {q[i] : i \in 1..Len(q)}

Max(a, b) == IF a >= b THEN a ELSE b
Min(a, b) == IF a <= b THEN a ELSE b

\* folder listings returned by the collaborator: distinct file paths, listing order
FileLists == InjectiveSeqs(FilePaths)

\* {filePath, fileName, baseHref, content} or null
NullFilePayload == [nil |-> TRUE, filePath |-> None, content |-> BadContent]

AllFilePayloads ==
  [nil : {FALSE}, filePath : FilePaths \cup {None}, content : Contents \cup {BadContent}]
    \cup {NullFilePayload}

\* {folderPath, files} or null
FolderPayloads ==
  [nil : {FALSE}, folderPath : FolderPaths \cup {None}, files : FileLists]
    \cup {[nil |-> TRUE, folderPath |-> None, files |-> <<>>]}

\* {theme?, tocOpen?, autoRefresh?} or null
StartupOptions ==
  [nil : {FALSE}, hasAutoRefresh : BOOLEAN, autoRefresh : BOOLEAN]
    \cup {[nil |-> TRUE, hasAutoRefresh |-> FALSE, autoRefresh |-> FALSE]}

\* open targets as they arrive from outside: a bare string, an object, or junk
OpenTargets ==
  [shape : {"string"}, targetType : {"file"}, path : FilePaths \cup {None}]
    \cup [shape : {"object"}, targetType : {"file"}, path : FilePaths \cup {None}]
    \cup [shape : {"object"}, targetType : {"folder"}, path : FolderPaths \cup {None}]
    \cup [shape : {"object"}, targetType : {"other"}, path : FilePaths]
    \cup {[shape |-> "null", targetType |-> "other", path |-> None]}

StopCall == [op |-> "stop", path |-> None]
StartCall(p) == [op |-> "start", path |-> p]
NoCall == [op |-> "none", path |-> None]

\* ------------------------------------------------------------------- state
VARIABLES
  desktopAPI,           \* which bridge window.markdownViewerDesktop is
  converterFails,       \* whether collaborators may deliver content markdown.render rejects
  watchFails,           \* whether the collaborator rejects the watch calls of this run
  currentFilePath,
  currentFolderPath,
  currentOpenMode,
  folderFiles,
  autoRefreshEnabled,
  preview,              \* what is mounted in previewEl
  baseHref,             \* href of the <base> element
  openVSCodeDisabled,   \* openVSCodeButton.disabled
  lastFileWatchCall,    \* most recently issued file-watch collaborator call
  lastFolderWatchCall,  \* most recently issued folder-watch collaborator call
  pendingReads,         \* readMarkdownFile / readMarkdownFolder calls in flight, oldest first
  readLimit,            \* bound of this run on the calls in flight at a time
  phase,                \* position of initializeApp
  stepCalls,            \* watch calls issued by the last handler, in issue order
  stepSyncs,            \* watch reconciliations run by the last handler, in order
  stepRenders,          \* renders mounted by the last handler
  stepThrew,            \* the last handler ended in an exception
  stepStale,            \* the read the last handler completed was overtaken by a later one
  stepWatchErrors,      \* rejected watch calls of the last handler, logged by their catch handlers
  stepNotices,          \* notices the last handler put on the user-visible surface
  stepEditorCall,       \* openInVSCodeAtLine calls issued by the last handler
  sourceNodes,          \* the [data-source-line] elements of previewEl, in document order
  scrollTop,            \* scroll offset of the scroll container
  resolved,             \* the last getCurrentSourceLine call: where and what
  scrollHeight,         \* previewEl.scrollHeight
  clientHeight,         \* previewEl.clientHeight
  previewScrollTop,     \* previewEl.scrollTop
  previousScrollRatio,  \* the last getPreviewScrollRatio call: its result and where it was taken
  subscriptions,        \* the bridge's addEventListener calls, by event name
  tokens,               \* the tokens the attach_source_lines rule has gone through
  scheduledRestores,    \* the requestAnimationFrame callbacks of renderDesktopPayload that
                        \* have not run yet: the ratio each will restore
  burstRatio,           \* the ratio taken at the first re-render since the user last scrolled
  mainProcess,          \* the Electron main process: mainWindow, pendingExternalOpenPaths,
                        \* and what it has handed to the renderer so far
  lastOp                \* the last handler run and its input (for a folder load:
                        \* the file that was active when the listing arrived)

sessionVars ==
  <<currentFilePath, currentFolderPath, currentOpenMode, folderFiles, autoRefreshEnabled>>

vars ==
  <<desktopAPI, converterFails, watchFails, currentFilePath, currentFolderPath, currentOpenMode, folderFiles,
    autoRefreshEnabled, preview, baseHref, openVSCodeDisabled, lastFileWatchCall,
    lastFolderWatchCall, pendingReads, readLimit, phase, stepCalls, stepSyncs, stepRenders,
    stepThrew, stepStale, stepWatchErrors, stepNotices, stepEditorCall, sourceNodes, scrollTop, resolved,
    scrollHeight, clientHeight, previewScrollTop, previousScrollRatio, subscriptions,
    tokens, scheduledRestores, burstRatio, mainProcess, lastOp>>

geometryVars == <<sourceNodes, scrollTop, resolved>>

scrollRatioVars == <<scrollHeight, clientHeight, previewScrollTop, previousScrollRatio>>

\* the state of the components that are modelled on their own
componentVars == <<subscriptions, tokens, scheduledRestores, burstRatio, mainProcess>>

\* everything but the geometry mapper's state, the scroll-ratio state and lastOp
handlerVars ==
  <<desktopAPI, converterFails, watchFails, sessionVars, preview, baseHref,
    openVSCodeDisabled, lastFileWatchCall, lastFolderWatchCall, pendingReads, readLimit,
    phase, stepCalls, stepSyncs, stepRenders, stepThrew, stepStale, stepWatchErrors,
    stepNotices, stepEditorCall>>

\* the three bridges of the repository: none (browser), the file-only bridge
\* (src/src/desktop-api.js) and the bridge with folder support (part_000)
Bridges == {"none", "file", "full"}

HasFolderAPI == desktopAPI = "full"

\* the file payloads the collaborators can deliver in this run
FilePayloads ==
  {p \in AllFilePayloads : p.nil \/ p.content # BadContent \/ converterFails}

DefaultPreview == [kind |-> "default", content |-> None]
EmptyPreview == [kind |-> "empty", content |-> None]
PromptPreview == [kind |-> "prompt", content |-> None]
DocPreview(c) == [kind |-> "doc", content |-> c]

Op(name, path) == [op |-> name, path |-> path]

\* the events of the bridge's subscriptions: onExternalFileOpen, onFileChanged,
\* onFolderChanged, onStartupOptions
EventNames == {"file:opened-external", "file:changed", "folder:changed", "app:startup-options"}

\* one addEventListener call: where its listen() call stands, whether the listener
\* is registered with the event system, whether the closure's unlisten variable is
\* set, whether the returned handle has been called, and the callbacks delivered
NoSubscription ==
  [listen |-> "none", listening |-> FALSE, unlisten |-> FALSE, unsubscribed |-> FALSE,
   delivered |-> 0]

\* the Electron main process before the app is ready: no window, nothing queued,
\* nothing handed to a renderer; opened counts the open-file events so far (it numbers
\* the requests), launchFilePath is what the window being loaded will send on
\* did-finish-load
NoMainProcess ==
  [ready |-> FALSE, mainWindow |-> "none", launchFilePath |-> None,
   pendingExternalOpenPaths |-> <<>>, handed |-> <<>>, opened |-> 0]

\* The mutable program state as one value, with the per-handler logs cleared.
Cur ==
  [currentFilePath |-> currentFilePath,
   currentFolderPath |-> currentFolderPath,
   currentOpenMode |-> currentOpenMode,
   folderFiles |-> folderFiles,
   autoRefreshEnabled |-> autoRefreshEnabled,
   preview |-> preview,
   baseHref |-> baseHref,
   openVSCodeDisabled |-> openVSCodeDisabled,
   lastFileWatchCall |-> lastFileWatchCall,
   lastFolderWatchCall |-> lastFolderWatchCall,
   calls |-> <<>>,
   syncs |-> <<>>,
   renders |-> <<>>,
   watchErrors |-> 0,
   notices |-> <<>>,
   editorCalls |-> <<>>,
   stale |-> FALSE,
   threw |-> FALSE]

Commit(s) ==
  /\ currentFilePath' = s.currentFilePath
  /\ currentFolderPath' = s.currentFolderPath
  /\ currentOpenMode' = s.currentOpenMode
  /\ folderFiles' = s.folderFiles
  /\ autoRefreshEnabled' = s.autoRefreshEnabled
  /\ preview' = s.preview
  /\ baseHref' = s.baseHref
  /\ openVSCodeDisabled' = s.openVSCodeDisabled
  /\ lastFileWatchCall' = s.lastFileWatchCall
  /\ lastFolderWatchCall' = s.lastFolderWatchCall
  /\ stepCalls' = s.calls
  /\ stepSyncs' = s.syncs
  /\ stepRenders' = s.renders
  /\ stepThrew' = s.threw
  /\ stepStale' = s.stale
  /\ stepWatchErrors' = s.watchErrors
  /\ stepNotices' = s.notices
  /\ stepEditorCall' = s.editorCalls
  /\ UNCHANGED <<geometryVars, scrollRatioVars, watchFails, readLimit, componentVars>>

\* --------------------------------------------------------- watch synchronizer
\* the call is issued and not awaited by the handler; when it rejects, the
\* catch handler of the sync call logs the error
IssueFileWatch(s, call) ==
  [s EXCEPT !.lastFileWatchCall = call,
            !.calls = Append(@, [kind |-> "file", op |-> call.op, path |-> call.path]),
            !.watchErrors = IF watchFails THEN @ + 1 ELSE @]

\* mutant: a rejected folder-watch call makes the session forget the folder
IssueFolderWatch_RollsBack(s, call) ==
  [s EXCEPT !.lastFolderWatchCall = call,
            !.calls = Append(@, [kind |-> "folder", op |-> call.op, path |-> call.path]),
            !.watchErrors = IF watchFails THEN @ + 1 ELSE @,
            !.currentFolderPath = IF watchFails THEN None ELSE @]

IssueFolderWatch(s, call) ==
  [s EXCEPT !.lastFolderWatchCall = call,
            !.calls = Append(@, [kind |-> "folder", op |-> call.op, path |-> call.path]),
            !.watchErrors = IF watchFails THEN @ + 1 ELSE @]

\* a reconciliation of the given kind is entered
EnterSync(s, kind) == [s EXCEPT !.syncs = Append(@, kind)]

\* mutant: the toggle is not consulted
syncAutoRefreshWatcher_IgnoresToggle(s) ==
  LET t == EnterSync(s, "file")
  IN IF desktopAPI = "none" THEN t
     ELSE IF t.currentFilePath = None
          THEN IssueFileWatch(t, StopCall)
          ELSE IssueFileWatch(t, StartCall(t.currentFilePath))

\* mutant: a running watch is stopped before the new one is started
syncAutoRefreshWatcher_StopsThenStarts(s) ==
  LET t == EnterSync(s, "file")
  IN IF desktopAPI = "none" THEN t
     ELSE IF ~t.autoRefreshEnabled \/ t.currentFilePath = None
          THEN IssueFileWatch(t, StopCall)
          ELSE IssueFileWatch(
                 IF t.lastFileWatchCall.op = "start" THEN IssueFileWatch(t, StopCall) ELSE t,
                 StartCall(t.currentFilePath))

syncAutoRefreshWatcher(s) ==
  LET t == EnterSync(s, "file")
  IN IF desktopAPI = "none" THEN t
     ELSE IF ~t.autoRefreshEnabled \/ t.currentFilePath = None
          THEN IssueFileWatch(t, StopCall)
          ELSE IssueFileWatch(t, StartCall(t.currentFilePath))

\* mutant: a running folder watch is never stopped
syncFolderWatcher_NeverStops(s) ==
  LET t == EnterSync(s, "folder")
  IN IF desktopAPI = "none" THEN t
     ELSE IF t.currentOpenMode # "folder" \/ t.currentFolderPath = None \/ ~HasFolderAPI
          THEN t
          ELSE IssueFolderWatch(t, StartCall(t.currentFolderPath))

\* mutant: the call is left out when it repeats the call issued last
syncFolderWatcher_SkipsRepeat(s) ==
  LET t == EnterSync(s, "folder")
      call == IF t.currentOpenMode # "folder" \/ t.currentFolderPath = None
              THEN StopCall ELSE StartCall(t.currentFolderPath)
  IN IF desktopAPI = "none" \/ ~HasFolderAPI \/ call = t.lastFolderWatchCall THEN t
     ELSE IssueFolderWatch(t, call)

syncFolderWatcher(s) ==
  LET t == EnterSync(s, "folder")
  IN IF desktopAPI = "none" THEN t
     ELSE IF t.currentOpenMode # "folder" \/ t.currentFolderPath = None \/ ~HasFolderAPI
          THEN IF HasFolderAPI THEN IssueFolderWatch(t, StopCall) ELSE t
          ELSE IssueFolderWatch(t, StartCall(t.currentFolderPath))

\* ------------------------------------------------------ render pipeline adapter
\* setBaseHref runs before markdown.render, so it also happens when render throws
renderMarkdown(s, source, href) ==
  IF source = BadContent
  THEN [s EXCEPT !.baseHref = href, !.threw = TRUE]
  ELSE [s EXCEPT !.baseHref = href,
                 !.preview = DocPreview(source),
                 !.renders = Append(@, DocPreview(source))]

renderPlaceholder(s, placeholder) ==
  [s EXCEPT !.baseHref = None,
            !.preview = placeholder,
            !.renders = Append(@, placeholder)]

\* ------------------------------------------------------------ document session
HasFiles(files) == Len(files) > 0

HasSelection(files, selectedPath) ==
  selectedPath # None /\ \E i \in 1..Len(files) : files[i] = selectedPath

updateFolderFilesList(s, files) == [s EXCEPT !.folderFiles = files]

\* mutant: the file watch is left alone
renderFolderEmptyState_NoSync(s) ==
  [renderPlaceholder(s, EmptyPreview) EXCEPT !.currentFilePath = None,
                                             !.openVSCodeDisabled = TRUE]

renderFolderEmptyState(s) ==
  syncAutoRefreshWatcher(
    [renderPlaceholder(s, EmptyPreview) EXCEPT !.currentFilePath = None,
                                               !.openVSCodeDisabled = TRUE])

\* mutant: the select-a-file prompt leaves the active file in place
renderFolderSelectionPrompt_KeepsFile(s) ==
  syncAutoRefreshWatcher(renderPlaceholder(s, PromptPreview))

renderFolderSelectionPrompt(s) ==
  syncAutoRefreshWatcher(
    [renderPlaceholder(s, PromptPreview) EXCEPT !.currentFilePath = None,
                                                !.openVSCodeDisabled = TRUE])

\* mutant: the folder watch is not reconciled on leaving folder mode
enterSingleFileMode_NoSync(s) ==
  updateFolderFilesList(
    [s EXCEPT !.currentOpenMode = "single-file", !.currentFolderPath = None], <<>>)

\* mutant: the folder listing survives the switch
enterSingleFileMode_KeepsListing(s) ==
  syncFolderWatcher([s EXCEPT !.currentOpenMode = "single-file", !.currentFolderPath = None])

\* mutant: the active file is given up with the folder
enterSingleFileMode_ClearsFile(s) ==
  syncFolderWatcher(
    updateFolderFilesList(
      [s EXCEPT !.currentOpenMode = "single-file", !.currentFolderPath = None,
                !.currentFilePath = None], <<>>))

enterSingleFileMode(s) ==
  syncFolderWatcher(
    updateFolderFilesList(
      [s EXCEPT !.currentOpenMode = "single-file", !.currentFolderPath = None], <<>>))

\* mutant: the current selection is never preserved
applyFolderPayload_DropsSelection(s, payload, preserveSelection) ==
  IF payload.nil THEN s
  ELSE LET s1 == [s EXCEPT !.currentOpenMode = "folder",
                           !.currentFolderPath = payload.folderPath]
           s2 == syncFolderWatcher(updateFolderFilesList(s1, payload.files))
       IN IF ~HasFiles(payload.files) THEN renderFolderEmptyState(s2)
          ELSE renderFolderSelectionPrompt(s2)

\* mutant: an empty listing gets the select-a-file prompt
applyFolderPayload_PromptWhenEmpty(s, payload, preserveSelection) ==
  IF payload.nil THEN s
  ELSE LET s1 == [s EXCEPT !.currentOpenMode = "folder",
                           !.currentFolderPath = payload.folderPath]
           preferredSelection ==
             IF preserveSelection /\ s1.currentFilePath # None
             THEN s1.currentFilePath ELSE None
           s2 == syncFolderWatcher(updateFolderFilesList(s1, payload.files))
       IN IF HasSelection(payload.files, preferredSelection) THEN s2
          ELSE renderFolderSelectionPrompt(s2)

\* mutant: every folder load keeps a selection that is still listed
applyFolderPayload_AlwaysPreserves(s, payload, preserveSelection) ==
  IF payload.nil THEN s
  ELSE LET s1 == [s EXCEPT !.currentOpenMode = "folder",
                           !.currentFolderPath = payload.folderPath]
           s2 == syncFolderWatcher(updateFolderFilesList(s1, payload.files))
       IN IF HasSelection(payload.files, s1.currentFilePath) THEN s2
          ELSE IF ~HasFiles(payload.files) THEN renderFolderEmptyState(s2)
          ELSE renderFolderSelectionPrompt(s2)

applyFolderPayload(s, payload, preserveSelection) ==
  IF payload.nil THEN s
  ELSE LET s1 == [s EXCEPT !.currentOpenMode = "folder",
                           !.currentFolderPath = payload.folderPath]
           preferredSelection ==
             IF preserveSelection /\ s1.currentFilePath # None
             THEN s1.currentFilePath ELSE None
           s2 == syncFolderWatcher(updateFolderFilesList(s1, payload.files))
       IN IF HasSelection(payload.files, preferredSelection) THEN s2
          ELSE IF ~HasFiles(payload.files) THEN renderFolderEmptyState(s2)
          ELSE renderFolderSelectionPrompt(s2)

renderDesktopPayload(s, payload, syncWatcher) ==
  IF payload.nil THEN s
  ELSE LET s1 == renderMarkdown(s, payload.content, payload.filePath)
       IN IF s1.threw THEN s1
          ELSE LET s2 == [s1 EXCEPT !.currentFilePath = payload.filePath,
                                    !.openVSCodeDisabled = (payload.filePath = None)]
               IN IF syncWatcher THEN syncAutoRefreshWatcher(s2) ELSE s2

\* mutant: the reconciliation is run whatever the syncWatcher option says
applyStartupOptions_AlwaysSyncs(s, options, syncWatcher) ==
  IF options.nil \/ ~options.hasAutoRefresh THEN s
  ELSE syncAutoRefreshWatcher([s EXCEPT !.autoRefreshEnabled = options.autoRefresh])

applyStartupOptions(s, options, syncWatcher) ==
  IF options.nil \/ ~options.hasAutoRefresh THEN s
  ELSE LET s1 == [s EXCEPT !.autoRefreshEnabled = options.autoRefresh]
       IN IF syncWatcher THEN syncAutoRefreshWatcher(s1) ELSE s1

\* ------------------------------------------------------------ geometry mapper
\* mutant: the end attribute is the map's end as it is
markdownSourceLinePlugin_NoMax(map) == [startLine |-> map[1] + 1, endLine |-> map[2]]

\* markdownSourceLinePlugin: the attributes attached to a block token with map [s, e]
markdownSourceLinePlugin(map) ==
  [startLine |-> map[1] + 1, endLine |-> Max(map[1] + 1, map[2])]

\* token.map of a block token: [s, e] with e > s, or e <= s for a zero-width entry
TokenMaps == (0..(MaxLine - 1)) \X (0..MaxLine)

\* the tokens of a parsed document as the rule sees them: map (<<>> for null),
\* nesting, and whether the type ends with _open
Tokens ==
  [map : {<<>>} \cup {<<m>> : m \in TokenMaps}, nesting : {0 - 1, 0, 1}, open : BOOLEAN]

\* one round of the loop of attach_source_lines: the attributes set on the token,
\* <<>> if it is skipped
attachSourceLines(token) ==
  IF token.map = <<>> \/ token.nesting # 1 \/ ~token.open THEN <<>>
  ELSE <<markdownSourceLinePlugin(token.map[1])>>

\* where a block sits in the rendered content: top and bottom edge, from the content's top
Boxes == {<<t, b>> \in (0..MaxY) \X (0..MaxY) : t < b}

SourceNode(box, attrs) ==
  [top |-> box[1], bottom |-> box[2], startLine |-> attrs.startLine, endLine |-> attrs.endLine]

\* elements annotated by the plugin
PluginNodes ==
  {SourceNode(box, markdownSourceLinePlugin(map)) : box \in Boxes, map \in TokenMaps}

\* what Number.parseInt makes of an attribute that is not a number
NaN == 0 - 1000

\* elements of raw HTML in the document that carry their own data-source-line
\* attributes (html: true, and the sanitizer keeps data attributes): Number.parseInt
\* of whatever the author wrote
AuthoredLines == ((0 - 1)..MaxLine) \cup {NaN}

AuthoredNodes ==
  {SourceNode(box, [startLine |-> a, endLine |-> b]) :
     box \in Boxes, a \in AuthoredLines, b \in AuthoredLines}

\* y comes after x and outside it in the document
FollowsNode(x, y) == x.bottom <= y.top /\ x.endLine < y.startLine

\* y is a block inside the block x
NestedNode(x, y) ==
  /\ x.top <= y.top /\ y.bottom <= x.bottom
  /\ x.startLine <= y.startLine /\ y.endLine <= x.endLine

\* what rendering a document with at most MaxBlocks annotated blocks can leave in
\* previewEl, in document order
RECURSIVE PluginLayoutsOfLen(_)
PluginLayoutsOfLen(n) ==
  IF n = 0 THEN {<<>>}
  ELSE {Append(nodes, y) :
          <<nodes, y>> \in
            {<<q, x>> \in PluginLayoutsOfLen(n - 1) \X PluginNodes :
               \A i \in 1..Len(q) : FollowsNode(q[i], x) \/ NestedNode(q[i], x)}}

PluginLayouts == UNION {PluginLayoutsOfLen(n) : n \in 0..MaxBlocks}

AuthoredLayouts == {<<x>> : x \in AuthoredNodes}

\* three blocks with line ranges {1,5}, {6,6}, {7,12}, one after the other
ScenarioLayout ==
  <<[top |-> 0, bottom |-> 1, startLine |-> 1, endLine |-> 5],
    [top |-> 1, bottom |-> 2, startLine |-> 6, endLine |-> 6],
    [top |-> 2, bottom |-> 4, startLine |-> 7, endLine |-> 12]>>

Layouts == PluginLayouts \cup AuthoredLayouts \cup {ScenarioLayout}

\* the blocks of defaultMarkdown: a heading, a paragraph, a list with its four
\* items, a paragraph
DefaultLayout ==
  <<[top |-> 0, bottom |-> 1, startLine |-> 1, endLine |-> 1],
    [top |-> 1, bottom |-> 2, startLine |-> 3, endLine |-> 3],
    [top |-> 2, bottom |-> 6, startLine |-> 5, endLine |-> 8],
    [top |-> 2, bottom |-> 3, startLine |-> 5, endLine |-> 5],
    [top |-> 3, bottom |-> 4, startLine |-> 6, endLine |-> 6],
    [top |-> 4, bottom |-> 5, startLine |-> 7, endLine |-> 7],
    [top |-> 5, bottom |-> 6, startLine |-> 8, endLine |-> 8],
    [top |-> 6, bottom |-> 7, startLine |-> 10, endLine |-> 10]>>

\* getViewportTop: one pixel below the top edge of the scroll container; rects
\* are measured from that edge
getViewportTop == 1

getBoundingClientRect(node, scroll) ==
  [top |-> node.top - scroll,
   bottom |-> node.bottom - scroll,
   height |-> node.bottom - node.top]

\* mutant: a half is rounded down
MathRound_HalfDown(n, d) == (2 * n + d - 1) \div (2 * d)

\* Math.round of the non-negative quotient n / d
MathRound(n, d) == (2 * n + d) \div (2 * d)

\* the for loop of getCurrentSourceLine, from node i on; the candidates are
\* <<>> (null) or a one-element sequence
RECURSIVE scanSourceNodes(_, _, _, _, _)
scanSourceNodes(nodes, scroll, i, containingCandidate, firstBelowCandidate) ==
  IF i > Len(nodes)
  THEN [containingCandidate |-> containingCandidate,
        firstBelowCandidate |-> firstBelowCandidate]
  ELSE LET rect == getBoundingClientRect(nodes[i], scroll)
           this == <<[node |-> nodes[i], rect |-> rect]>>
       IN IF rect.bottom <= getViewportTop
          THEN scanSourceNodes(nodes, scroll, i + 1, containingCandidate, firstBelowCandidate)
          ELSE IF rect.top <= getViewportTop
          THEN scanSourceNodes(nodes, scroll, i + 1,
                 IF containingCandidate = <<>> \/ rect.top > containingCandidate[1].rect.top
                 THEN this ELSE containingCandidate,
                 firstBelowCandidate)
          ELSE scanSourceNodes(nodes, scroll, i + 1, containingCandidate,
                 IF firstBelowCandidate = <<>> \/ rect.top < firstBelowCandidate[1].rect.top
                 THEN this ELSE firstBelowCandidate)

getCurrentSourceLine(nodes, scroll) ==
  IF Len(nodes) = 0 THEN 1
  ELSE LET found == scanSourceNodes(nodes, scroll, 1, <<>>, <<>>)
           candidate == IF found.containingCandidate # <<>>
                        THEN found.containingCandidate
                        ELSE found.firstBelowCandidate
       IN IF candidate = <<>> THEN 1
          ELSE LET startLine == candidate[1].node.startLine
                   endLineRaw == candidate[1].node.endLine
                   endLine == IF endLineRaw # NaN THEN Max(startLine, endLineRaw) ELSE startLine
                   rect == candidate[1].rect
               IN IF startLine = NaN THEN NaN
                  ELSE IF found.containingCandidate = <<>> \/ endLine <= startLine \/ rect.height <= 0
                  THEN startLine
                  ELSE LET offset == Max(0, Min(rect.height, getViewportTop - rect.top))
                           mappedLine ==
                             startLine + MathRound(offset * (endLine - startLine), rect.height)
                       IN Max(startLine, Min(endLine, mappedLine))

\* ------------------------------------------------------------ scroll-ratio mapper
\* A JavaScript number that is not an integer: sig / 2^exp, kept in lowest terms.
\* The significand is rounded to FloatBits bits (an IEEE double has 53); all numbers
\* here stay below 2^FloatBits, so integers are exact, as pixel counts are in a double.
RECURSIVE Dyadic(_, _)
Dyadic(sig, exp) ==
  IF exp > 0 /\ sig % 2 = 0 THEN Dyadic(sig \div 2, exp - 1) ELSE [sig |-> sig, exp |-> exp]

FromInt(n) == [sig |-> n, exp |-> 0]

\* a <= b, a < b and the smaller and larger of two numbers
FloatLeq(a, b) == a.sig * 2^b.exp <= b.sig * 2^a.exp
FloatMin(a, b) == IF FloatLeq(a, b) THEN a ELSE b
FloatMax(a, b) == IF FloatLeq(a, b) THEN b ELSE a

\* the binary exponent of n / d: the least e with n * 2^e / d >= 2^(FloatBits - 1)
RECURSIVE BinaryExponent(_, _, _)
BinaryExponent(n, d, e) ==
  IF n * 2^e >= d * 2^(FloatBits - 1) THEN e ELSE BinaryExponent(n, d, e + 1)

\* the number nearest to n / d (round to nearest, ties to even): the result of
\* every arithmetic operation on numbers
RoundToFloat(n, d) ==
  IF n = 0 THEN FromInt(0)
  ELSE LET e == BinaryExponent(n, d, 0)
           q == (n * 2^e) \div d
           r == (n * 2^e) % d
       IN Dyadic(IF 2 * r > d \/ (2 * r = d /\ q % 2 = 1) THEN q + 1 ELSE q, e)

\* a / m and m * r for an integer m > 0
FloatDiv(a, m) == RoundToFloat(a.sig, m * 2^a.exp)
FloatMul(m, r) == RoundToFloat(m * r.sig, 2^r.exp)

\* mutant: the ratio is taken over the window height
getPreviewScrollRatio_OverClientHeight(top, height, client) ==
  IF height - client <= 0 THEN FromInt(0) ELSE FloatDiv(top, client)

\* mutant: the ratio is taken over the whole content height
getPreviewScrollRatio_OverScrollHeight(top, height, client) ==
  IF height - client <= 0 THEN FromInt(0) ELSE FloatDiv(top, height)

getPreviewScrollRatio(top, height, client) ==
  LET maxScroll == height - client
  IN IF maxScroll <= 0 THEN FromInt(0) ELSE FloatDiv(top, maxScroll)

\* restorePreviewScrollRatio: the value it assigns to previewEl.scrollTop
restorePreviewScrollRatio(ratio, height, client) ==
  LET maxScroll == height - client
  IN IF maxScroll <= 0 THEN FromInt(0)
     ELSE FloatMax(FromInt(0), FloatMin(FromInt(maxScroll), FloatMul(maxScroll, ratio)))

\* what the scrollTop setter keeps of an assigned value: engines truncate it to a
\* whole pixel, or snap it to the nearest device pixel (a whole pixel, or half a
\* pixel on a display with a device pixel ratio of 2)
ScrollTopSetters == {"truncated", "rounded", "halfPixel"}

setScrollTop(value, setter) ==
  IF setter = "truncated" THEN FromInt(value.sig \div 2^value.exp)
  ELSE IF setter = "rounded"
  THEN FromInt((2 * value.sig + 2^value.exp) \div 2^(value.exp + 1))
  ELSE Dyadic((4 * value.sig + 2^value.exp) \div 2^(value.exp + 1), 1)

\* the sizes a preview can have, and the offsets it can be scrolled to
ScrollHeights == 0..MaxScrollHeight
ClientHeights == 1..MaxScrollHeight
MaxScrollTop(height, client) == Max(0, height - client)

\* ------------------------------------------------------------------- actions
\* the default document fits the window
InitPreviewScroll ==
  /\ scrollHeight = 1
  /\ clientHeight = 1
  /\ previewScrollTop = FromInt(0)
  /\ previousScrollRatio = <<>>

InitSession ==
  /\ desktopAPI \in Bridges
  /\ currentFilePath = None
  /\ currentFolderPath = None
  /\ currentOpenMode = "single-file"
  /\ folderFiles = <<>>
  /\ autoRefreshEnabled = TRUE
  /\ preview = DefaultPreview
  /\ baseHref = None
  /\ openVSCodeDisabled = TRUE
  /\ lastFileWatchCall = NoCall
  /\ lastFolderWatchCall = NoCall
  /\ pendingReads = <<>>
  /\ phase = "startup"
  /\ stepCalls = <<>>
  /\ stepSyncs = <<>>
  /\ stepRenders = <<>>
  /\ stepThrew = FALSE
  /\ stepStale = FALSE
  /\ stepWatchErrors = 0
  /\ stepNotices = <<>>
  /\ stepEditorCall = <<>>
  /\ scrollTop = 0
  /\ resolved = <<>>
  /\ subscriptions = [eventName \in EventNames |-> NoSubscription]
  /\ tokens = <<>>
  /\ scheduledRestores = <<>>
  /\ burstRatio = <<>>
  /\ mainProcess = NoMainProcess
  /\ lastOp = Op("init", None)

\* payload contents are text the converter accepts (the collaborators' contract)
Init ==
  /\ InitSession /\ converterFails = FALSE /\ watchFails = FALSE
  /\ readLimit = MaxInFlight /\ sourceNodes = DefaultLayout /\ InitPreviewScroll

\* payload contents may also be undecodable, or make the converter throw
InitFaulty ==
  /\ InitSession /\ converterFails \in BOOLEAN /\ watchFails = FALSE
  /\ readLimit = MaxInFlight /\ sourceNodes = DefaultLayout /\ InitPreviewScroll

\* every watch call of the run is rejected by the collaborator
InitWatchFails ==
  /\ InitSession /\ converterFails = FALSE /\ watchFails = TRUE
  /\ readLimit = MaxInFlight /\ sourceNodes = DefaultLayout /\ InitPreviewScroll

\* the full bridge, with one more read in flight at a time: reads overtake each other
InitRace ==
  /\ InitSession /\ desktopAPI = "full" /\ converterFails = FALSE /\ watchFails = FALSE
  /\ readLimit = MaxInFlight + 1 /\ sourceNodes = DefaultLayout /\ InitPreviewScroll

\* mutant: the click reconciles the folder watch as well
ToggleAutoRefresh_BothWatches ==
  /\ desktopAPI # "none"
  /\ Commit(syncFolderWatcher(
              syncAutoRefreshWatcher([Cur EXCEPT !.autoRefreshEnabled = ~autoRefreshEnabled])))
  /\ lastOp' = Op("toggleAutoRefresh", None)
  /\ UNCHANGED <<desktopAPI, converterFails, pendingReads, phase>>

\* toggleAutoRefreshButton click (the button is disabled without a bridge)
ToggleAutoRefresh ==
  /\ desktopAPI # "none"
  /\ Commit(syncAutoRefreshWatcher([Cur EXCEPT !.autoRefreshEnabled = ~autoRefreshEnabled]))
  /\ lastOp' = Op("toggleAutoRefresh", None)
  /\ UNCHANGED <<desktopAPI, converterFails, pendingReads, phase>>

\* initializeApp: getStartupOptions resolves (or fails, or there is no bridge) and
\* the options are applied with the watcher sync suppressed
StartupOptionsArrive(options) ==
  /\ phase = "startup"
  /\ desktopAPI = "none" => options.nil
  /\ Commit(applyStartupOptions(Cur, options, FALSE))
  /\ phase' = IF desktopAPI = "full" THEN "consume" ELSE "bound"
  /\ lastOp' = Op("startupOptions", None)
  /\ UNCHANGED <<desktopAPI, converterFails, pendingReads>>

\* desktopAPI.onStartupOptions callback (live update)
OnStartupOptions(options) ==
  /\ phase # "startup"
  /\ desktopAPI # "none"
  /\ Commit(applyStartupOptions(Cur, options, TRUE))
  /\ lastOp' = Op("startupOptionsUpdated", None)
  /\ UNCHANGED <<desktopAPI, converterFails, pendingReads, phase>>

\* openFileButton click with a bridge: openDesktopFileDialog
DialogOutcomes == {"ok", "canceled", "failed"}

OpenDesktopFileDialog(outcome, payload) ==
  /\ desktopAPI # "none"
  /\ ~payload.nil
  /\ outcome # "ok" => payload = [nil |-> FALSE, filePath |-> None, content |-> 1]
  /\ Commit(IF outcome = "ok"
            THEN renderDesktopPayload(enterSingleFileMode(Cur), payload, TRUE)
            ELSE [Cur EXCEPT !.threw = (outcome = "failed")])
  /\ lastOp' = Op("openFileDialog", None)
  /\ UNCHANGED <<desktopAPI, converterFails, pendingReads, phase>>

\* openFolderButton click: openDesktopFolderDialog
OpenDesktopFolderDialog(outcome, payload) ==
  /\ HasFolderAPI
  /\ ~payload.nil
  /\ payload.folderPath # None
  /\ outcome # "ok" => payload.files = <<>> /\ payload.folderPath = 1
  /\ Commit(IF outcome = "ok"
            THEN applyFolderPayload(Cur, payload, FALSE)
            ELSE [Cur EXCEPT !.threw = (outcome = "failed")])
  /\ lastOp' = IF outcome = "ok" THEN Op("openFolderDialog", currentFilePath)
                ELSE Op("openFolderDialogNone", None)
  /\ UNCHANGED <<desktopAPI, converterFails, pendingReads, phase>>

\* fileInput change: openFileFromBrowser (file.text() has resolved)
openFileFromBrowser(s, contents) ==
  LET s1 == renderMarkdown(enterSingleFileMode(s), contents, None)
  IN syncAutoRefreshWatcher([s1 EXCEPT !.currentFilePath = None,
                                       !.openVSCodeDisabled = TRUE])

OpenFileFromBrowser(contents) ==
  /\ Commit(openFileFromBrowser(Cur, contents))
  /\ lastOp' = Op("openFileFromBrowser", None)
  /\ UNCHANGED <<desktopAPI, converterFails, pendingReads, phase>>

\* ---- reads in flight
ReadRequest(kind, path, mode, drain) ==
  [kind |-> kind, path |-> path, mode |-> mode, drain |-> drain, overtaken |-> FALSE]

CanRead == Len(pendingReads) < readLimit

\* one more call in flight
StartRead(reads, req) == Append(reads, req)

\* the i-th call in flight has settled; the calls issued before it have been overtaken
SettleRead(reads, i) ==
  [j \in 1..(Len(reads) - 1) |->
     IF j < i THEN [reads[j] EXCEPT !.overtaken = TRUE] ELSE reads[j + 1]]

ReadsInFlight == Range(pendingReads)

\* mutant: single-file mode is entered whatever the mode option says
openDesktopFileByPath_AlwaysEntersSingleFile(s, mode) == enterSingleFileMode(s)

\* openDesktopFileByPath up to its await
openDesktopFileByPath(s, mode) ==
  IF mode # "folder" THEN enterSingleFileMode(s) ELSE s

\* folderFilesListEl click on a listed entry
SelectFolderEntry(path) ==
  /\ desktopAPI # "none"
  /\ \E i \in 1..Len(folderFiles) : folderFiles[i] = path
  /\ CanRead
  /\ Commit(openDesktopFileByPath(Cur, "folder"))
  /\ pendingReads' = StartRead(pendingReads, ReadRequest("file", path, "folder", FALSE))
  /\ lastOp' = Op("selectFolderEntry", None)
  /\ UNCHANGED <<desktopAPI, converterFails, phase>>

\* mutant: the targetType of an object is not checked
normalizeOpenTarget_NoTypeCheck(target) ==
  IF target.shape = "null" \/ target.path = None
  THEN [ok |-> FALSE, targetType |-> "file", path |-> None]
  ELSE IF target.shape = "string"
  THEN [ok |-> TRUE, targetType |-> "file", path |-> target.path]
  ELSE [ok |-> TRUE, targetType |-> target.targetType, path |-> target.path]

normalizeOpenTarget(target) ==
  IF target.shape = "null" \/ target.path = None
  THEN [ok |-> FALSE, targetType |-> "file", path |-> None]
  ELSE IF target.shape = "string"
  THEN [ok |-> TRUE, targetType |-> "file", path |-> target.path]
  ELSE IF target.targetType \in {"file", "folder"}
  THEN [ok |-> TRUE, targetType |-> target.targetType, path |-> target.path]
  ELSE [ok |-> FALSE, targetType |-> "file", path |-> None]

\* openDesktopTarget up to the await of the read it starts; Dispatches(target)
\* tells whether a read is started at all
Dispatches(target) ==
  LET n == normalizeOpenTarget(target)
  IN /\ n.ok
     /\ desktopAPI # "none"
     /\ n.targetType = "folder" => HasFolderAPI

openDesktopTarget(s, target) ==
  LET n == normalizeOpenTarget(target)
  IN IF ~n.ok \/ n.path = None THEN s
     ELSE IF n.targetType = "folder" THEN s
     ELSE IF desktopAPI = "none" THEN s
     ELSE openDesktopFileByPath(s, "single-file")

TargetRequest(target, drain) ==
  LET n == normalizeOpenTarget(target)
  IN IF n.targetType = "folder"
     THEN ReadRequest("folder", n.path, "none", drain)
     ELSE ReadRequest("file", n.path, "single-file", drain)

OpenTargetStep(name, target, drain) ==
  /\ Dispatches(target) => CanRead
  /\ Commit(openDesktopTarget(Cur, target))
  /\ pendingReads' = IF Dispatches(target)
                     THEN StartRead(pendingReads, TargetRequest(target, drain))
                     ELSE pendingReads
  /\ lastOp' = Op(name, None)
  /\ UNCHANGED <<desktopAPI, converterFails>>

\* desktopAPI.onExternalFileOpen callback
OnExternalFileOpen(target) ==
  /\ desktopAPI # "none"
  /\ phase = "bound"
  /\ OpenTargetStep("externalOpen", target, FALSE)
  /\ UNCHANGED phase

\* desktopAPI.onOpenOnLaunch callback
OnOpenOnLaunch(target) ==
  /\ desktopAPI # "none"
  /\ phase # "startup"
  /\ OpenTargetStep("openOnLaunch", target, FALSE)
  /\ UNCHANGED phase

\* mutant: a pending target that is not dispatched leaves the drain armed
ConsumePending_StaysArmed(target) ==
  /\ phase = "consume"
  /\ OpenTargetStep("consumePending", target, TRUE)
  /\ phase' = IF Dispatches(target) THEN "draining" ELSE "consume"

\* bindExternalOpenEvents: consumePendingExternalOpenTarget resolves
ConsumePending(target) ==
  /\ phase = "consume"
  /\ OpenTargetStep("consumePending", target, TRUE)
  /\ phase' = IF Dispatches(target) THEN "draining" ELSE "bound"

\* mutant: the payload of a read that a later read has overtaken is dropped
finishOpenDesktopFileByPath_DropsStale(s, mode, payload) ==
  LET s1 == renderDesktopPayload(s, payload, TRUE)
  IN IF s.stale THEN s
     ELSE IF s1.threw \/ mode # "folder" THEN s1
     ELSE updateFolderFilesList(s1, s1.folderFiles)

\* readMarkdownFile resolves: the rest of openDesktopFileByPath
finishOpenDesktopFileByPath(s, mode, payload) ==
  LET s1 == renderDesktopPayload(s, payload, TRUE)
  IN IF s1.threw \/ mode # "folder" THEN s1
     ELSE updateFolderFilesList(s1, s1.folderFiles)

ReadFileDone(i, payload) ==
  /\ i \in 1..Len(pendingReads)
  /\ LET req == pendingReads[i]
     IN /\ req.kind = "file"
        /\ ~payload.nil
        /\ payload.filePath \in {req.path, None}
        /\ LET s1 == finishOpenDesktopFileByPath([Cur EXCEPT !.stale = req.overtaken],
                                                 req.mode, payload)
           IN /\ Commit(s1)
              /\ phase' = IF req.drain THEN (IF s1.threw THEN "failed" ELSE "bound") ELSE phase
  /\ pendingReads' = SettleRead(pendingReads, i)
  /\ lastOp' = Op("readFileDone", None)
  /\ UNCHANGED <<desktopAPI, converterFails>>

\* readMarkdownFile or readMarkdownFolder rejects
ReadFail(i) ==
  /\ i \in 1..Len(pendingReads)
  /\ Commit([Cur EXCEPT !.threw = TRUE, !.stale = pendingReads[i].overtaken])
  /\ phase' = IF pendingReads[i].drain THEN "failed" ELSE phase
  /\ pendingReads' = SettleRead(pendingReads, i)
  /\ lastOp' = Op(IF pendingReads[i].mode = "folder" THEN "readEntryFail" ELSE "readFail", None)
  /\ UNCHANGED <<desktopAPI, converterFails>>

\* readMarkdownFolder resolves: the rest of openDesktopFolderByPath
ReadFolderDone(i, payload) ==
  /\ i \in 1..Len(pendingReads)
  /\ pendingReads[i].kind = "folder"
  /\ ~payload.nil
  /\ payload.folderPath = pendingReads[i].path
  /\ Commit(applyFolderPayload([Cur EXCEPT !.stale = pendingReads[i].overtaken], payload, FALSE))
  /\ phase' = IF pendingReads[i].drain THEN "bound" ELSE phase
  /\ pendingReads' = SettleRead(pendingReads, i)
  /\ lastOp' = Op("readFolderDone", currentFilePath)
  /\ UNCHANGED <<desktopAPI, converterFails>>

\* mutant: the notification's path is not compared with the active file
onFileChanged_NoPathCheck(s, payload) ==
  IF payload.nil \/ payload.filePath = None
  THEN s
  ELSE renderDesktopPayload(s, payload, FALSE)

\* mutant: the re-render reconciles the file watch like any other load
onFileChanged_Syncs(s, payload) ==
  IF payload.nil \/ payload.filePath = None \/ payload.filePath # s.currentFilePath
  THEN s
  ELSE renderDesktopPayload(s, payload, TRUE)

\* desktopAPI.onFileChanged callback
onFileChanged(s, payload) ==
  IF payload.nil \/ payload.filePath = None \/ payload.filePath # s.currentFilePath
  THEN s
  ELSE renderDesktopPayload(s, payload, FALSE)

OnFileChanged(payload) ==
  /\ desktopAPI # "none"
  /\ phase = "bound"
  /\ Commit(onFileChanged(Cur, payload))
  /\ lastOp' = Op("fileChanged", payload.filePath)
  /\ UNCHANGED <<desktopAPI, converterFails, pendingReads, phase>>

\* mutant: the notification's path is not compared with the active folder
onFolderChanged_NoPathCheck(s, payload) ==
  IF payload.nil \/ payload.folderPath = None \/ s.currentOpenMode # "folder"
  THEN s
  ELSE applyFolderPayload(s, payload, TRUE)

\* desktopAPI.onFolderChanged callback
onFolderChanged(s, payload) ==
  IF \/ payload.nil
     \/ payload.folderPath = None
     \/ s.currentOpenMode # "folder"
     \/ payload.folderPath # s.currentFolderPath
  THEN s
  ELSE applyFolderPayload(s, payload, TRUE)

OnFolderChanged(payload) ==
  /\ HasFolderAPI
  /\ phase = "bound"
  /\ Commit(onFolderChanged(Cur, payload))
  /\ lastOp' = Op("folderChanged", payload.folderPath)
  /\ UNCHANGED <<desktopAPI, converterFails, pendingReads, phase>>

\* openVSCodeButton click: openInVSCodeAtCurrentPosition, with the outcome of the launch
LaunchOutcomes == {"ok", "failed"}

openInVSCodeAtCurrentPosition(s, outcome) ==
  IF desktopAPI = "none" \/ s.currentFilePath = None THEN s
  ELSE [s EXCEPT !.editorCalls =
                   Append(@, [path |-> s.currentFilePath,
                              line |-> getCurrentSourceLine(sourceNodes, scrollTop)]),
                 !.threw = (outcome = "failed")]

\* mutant: the launcher passes the line on as it gets it
openInVSCodeAtLine_Unchecked(filePath, line) == [path |-> filePath, line |-> line]

\* the launcher of the Electron main process: the target it hands to the editor
openInVSCodeAtLine(filePath, line) ==
  [path |-> filePath, line |-> IF line # NaN THEN Max(1, line) ELSE 1]

OpenInVSCode(outcome) ==
  /\ ~openVSCodeDisabled
  /\ Commit(openInVSCodeAtCurrentPosition(Cur, outcome))
  /\ lastOp' = Op("openInVSCode", None)
  /\ UNCHANGED <<desktopAPI, converterFails, pendingReads, phase>>

\* ---- the geometry mapper on its own: any layout, any scroll position
ScrollOffsets == 0..MaxY

ScrollPreview(to) ==
  /\ to # scrollTop
  /\ scrollTop' = to
  /\ lastOp' = Op("scroll", None)
  /\ UNCHANGED <<handlerVars, componentVars, scrollRatioVars, sourceNodes, resolved>>

ResolveCurrentSourceLine ==
  /\ resolved' = <<[at |-> scrollTop, line |-> getCurrentSourceLine(sourceNodes, scrollTop)]>>
  /\ lastOp' = Op("getCurrentSourceLine", None)
  /\ UNCHANGED <<handlerVars, componentVars, scrollRatioVars, sourceNodes, scrollTop>>

InitGeometry ==
  /\ InitSession
  /\ desktopAPI = "none"
  /\ converterFails = FALSE
  /\ watchFails = FALSE
  /\ readLimit = MaxInFlight
  /\ sourceNodes \in Layouts
  /\ InitPreviewScroll

NextGeometry ==
  \/ \E to \in ScrollOffsets : ScrollPreview(to)
  \/ ResolveCurrentSourceLine

\* ---- the bridge's subscriptions on their own: any order of subscribing, of the
\* settling of listen(), of calls of the handle and of events
\* addEventListener(eventName, callback): listen() is called and not awaited, the
\* handle is returned at once
addEventListener(sub) == [sub EXCEPT !.listen = "pending"]

\* listen() resolves: the listener is registered, and .then stores dispose
listenResolved(sub) ==
  [sub EXCEPT !.listen = "resolved", !.listening = TRUE, !.unlisten = TRUE]

\* listen() rejects: .catch logs, nothing is registered
listenRejected(sub) == [sub EXCEPT !.listen = "rejected"]

\* the returned handle: if (unlisten) unlisten()
unsubscribe(sub) ==
  [sub EXCEPT !.unsubscribed = TRUE,
              !.listening = IF sub.unlisten THEN FALSE ELSE @]

\* an event reaches the registered listener, which calls the callback
deliver(sub) == [sub EXCEPT !.delivered = @ + 1]

SubscriptionStep(eventName, sub) ==
  /\ subscriptions' = [subscriptions EXCEPT ![eventName] = sub]
  /\ UNCHANGED <<handlerVars, geometryVars, scrollRatioVars, tokens, scheduledRestores,
                 burstRatio, mainProcess, lastOp>>

Subscribe(eventName) ==
  /\ subscriptions[eventName].listen = "none"
  /\ SubscriptionStep(eventName, addEventListener(subscriptions[eventName]))

ListenResolves(eventName) ==
  /\ subscriptions[eventName].listen = "pending"
  /\ SubscriptionStep(eventName, listenResolved(subscriptions[eventName]))

ListenRejects(eventName) ==
  /\ subscriptions[eventName].listen = "pending"
  /\ SubscriptionStep(eventName, listenRejected(subscriptions[eventName]))

Unsubscribe(eventName) ==
  /\ subscriptions[eventName].listen # "none"
  /\ SubscriptionStep(eventName, unsubscribe(subscriptions[eventName]))

EmitEvent(eventName) ==
  /\ subscriptions[eventName].listening
  /\ subscriptions[eventName].delivered < MaxDeliveries
  /\ SubscriptionStep(eventName, deliver(subscriptions[eventName]))

InitSubscription ==
  /\ InitSession
  /\ desktopAPI = "full"
  /\ converterFails = FALSE
  /\ watchFails = FALSE
  /\ readLimit = MaxInFlight
  /\ sourceNodes = DefaultLayout
  /\ InitPreviewScroll

NextSubscription ==
  \E eventName \in EventNames :
    \/ Subscribe(eventName)
    \/ ListenResolves(eventName)
    \/ ListenRejects(eventName)
    \/ Unsubscribe(eventName)
    \/ EmitEvent(eventName)

\* ---- the source-line rule on its own: any tokens, any map
AttachSourceLines(token) ==
  /\ Len(tokens) < MaxTokens
  /\ tokens' = Append(tokens, [token |-> token, attrs |-> attachSourceLines(token)])
  /\ UNCHANGED <<handlerVars, geometryVars, scrollRatioVars, subscriptions,
                 scheduledRestores, burstRatio, mainProcess, lastOp>>

InitPlugin ==
  /\ InitSession
  /\ desktopAPI = "none"
  /\ converterFails = FALSE
  /\ watchFails = FALSE
  /\ readLimit = MaxInFlight
  /\ sourceNodes = <<>>
  /\ InitPreviewScroll

NextPlugin == \E token \in Tokens : AttachSourceLines(token)

\* ---- the Electron main process: open-file events, windows, the pending queue
\* a path whose extension is not in MARKDOWN_EXTENSIONS
NotMarkdown == NumFiles + 1

\* what the operating system may pass to open-file: markdown paths, a path of another
\* kind, nothing
OpenFileInputs == FilePaths \cup {NotMarkdown, None}

isMarkdownPath(candidatePath) == candidatePath \in FilePaths

\* what reached a renderer: the request, its path, and how it got there
Handed(m, request, how) ==
  [m EXCEPT !.handed = Append(@, [id |-> request.id, path |-> request.path, via |-> how])]

\* the direct send is followed by the push as well
queueExternalOpen_NoReturn(m, filePath) ==
  LET request == [id |-> m.opened, path |-> filePath]
      sent == IF m.mainWindow = "loaded" THEN Handed(m, request, "send") ELSE m
  IN IF filePath = None \/ ~isMarkdownPath(filePath)
       THEN m
       ELSE [sent EXCEPT !.pendingExternalOpenPaths = Append(@, request)]

\* the paths of the model are absolute, so path.resolve leaves them as they are
queueExternalOpen(m, filePath) ==
  LET request == [id |-> m.opened, path |-> filePath]
  IN IF filePath = None
       THEN m
       ELSE IF ~isMarkdownPath(filePath)
         THEN m
         ELSE IF m.mainWindow = "loaded"
           THEN Handed(m, request, "send")
           ELSE [m EXCEPT !.pendingExternalOpenPaths = Append(@, request)]

RECURSIVE flushLoop(_)
flushLoop(m) ==
  IF Len(m.pendingExternalOpenPaths) > 0
    THEN flushLoop(Handed([m EXCEPT !.pendingExternalOpenPaths = Tail(@)],
                          Head(m.pendingExternalOpenPaths), "flush"))
    ELSE m

flushPendingExternalOpens(m) ==
  IF m.mainWindow = "none" THEN m ELSE flushLoop(m)

\* the new window starts loading its main frame
createMainWindow(m, launchFilePath) ==
  [m EXCEPT !.mainWindow = "loading", !.launchFilePath = launchFilePath]

\* app.whenReady(): the first window, with the markdown path of the command line
WhenReady(launchFilePath) ==
  /\ ~mainProcess.ready
  /\ mainProcess' = createMainWindow([mainProcess EXCEPT !.ready = TRUE], launchFilePath)
  /\ lastOp' = Op("whenReady", launchFilePath)
  /\ UNCHANGED <<handlerVars, geometryVars, scrollRatioVars, subscriptions, tokens,
                 scheduledRestores, burstRatio>>

\* app.on("open-file")
OpenFile(filePath) ==
  /\ mainProcess.opened < MaxOpens
  /\ LET numbered == [mainProcess EXCEPT !.opened = @ + 1]
         queued == queueExternalOpen(numbered, filePath)
     IN mainProcess' = IF queued.ready /\ queued.mainWindow = "none"
                         THEN createMainWindow(queued, None)
                         ELSE queued
  /\ lastOp' = Op("open-file", filePath)
  /\ UNCHANGED <<handlerVars, geometryVars, scrollRatioVars, subscriptions, tokens,
                 scheduledRestores, burstRatio>>

\* the did-finish-load callback of the window, registered with once
DidFinishLoad ==
  /\ mainProcess.mainWindow = "loading"
  /\ LET loaded == [mainProcess EXCEPT !.mainWindow = "loaded", !.launchFilePath = None]
         launched == IF mainProcess.launchFilePath # None
                       THEN Handed(loaded, [id |-> 0, path |-> mainProcess.launchFilePath],
                                   "launch")
                       ELSE loaded
     IN mainProcess' = flushPendingExternalOpens(launched)
  /\ lastOp' = Op("did-finish-load", None)
  /\ UNCHANGED <<handlerVars, geometryVars, scrollRatioVars, subscriptions, tokens,
                 scheduledRestores, burstRatio>>

\* the renderer of the window invokes file:consume-pending-opened-path
ConsumePendingOpenedPath ==
  /\ mainProcess.mainWindow # "none"
  /\ mainProcess' =
       IF Len(mainProcess.pendingExternalOpenPaths) > 0
         THEN Handed([mainProcess EXCEPT !.pendingExternalOpenPaths = Tail(@)],
                     Head(mainProcess.pendingExternalOpenPaths), "consume")
         ELSE mainProcess
  /\ lastOp' = Op("consume-pending", None)
  /\ UNCHANGED <<handlerVars, geometryVars, scrollRatioVars, subscriptions, tokens,
                 scheduledRestores, burstRatio>>

\* the window's closed callback
WindowClosed ==
  /\ mainProcess.mainWindow # "none"
  /\ mainProcess' = [mainProcess EXCEPT !.mainWindow = "none", !.launchFilePath = None]
  /\ lastOp' = Op("closed", None)
  /\ UNCHANGED <<handlerVars, geometryVars, scrollRatioVars, subscriptions, tokens,
                 scheduledRestores, burstRatio>>

\* app.on("activate"), registered once the app is ready
Activate ==
  /\ mainProcess.ready
  /\ mainProcess' = IF mainProcess.mainWindow = "none"
                      THEN createMainWindow(mainProcess, None)
                      ELSE mainProcess
  /\ lastOp' = Op("activate", None)
  /\ UNCHANGED <<handlerVars, geometryVars, scrollRatioVars, subscriptions, tokens,
                 scheduledRestores, burstRatio>>

InitElectron ==
  /\ InitSession
  /\ desktopAPI = "file"
  /\ converterFails = FALSE
  /\ watchFails = FALSE
  /\ readLimit = MaxInFlight
  /\ sourceNodes = DefaultLayout
  /\ InitPreviewScroll

NextElectron ==
  \/ \E launchFilePath \in FilePaths \cup {None} : WhenReady(launchFilePath)
  \/ \E filePath \in OpenFileInputs : OpenFile(filePath)
  \/ DidFinishLoad
  \/ ConsumePendingOpenedPath
  \/ WindowClosed
  \/ Activate

\* ---- the editor launch on its own: files opened and closed, any scroll position,
\* documents with blocks of their own
EditorLayouts ==
  {<<>>, DefaultLayout, ScenarioLayout}
    \cup {layout \in AuthoredLayouts :
            <<layout[1].top, layout[1].bottom>> \in {<<0, 2>>, <<2, 4>>}}

InitEditor ==
  /\ InitSession
  /\ desktopAPI \in {"file", "full"}
  /\ converterFails = FALSE
  /\ watchFails = FALSE
  /\ readLimit = MaxInFlight
  /\ sourceNodes \in EditorLayouts
  /\ InitPreviewScroll

NextEditor ==
  \/ \E outcome \in DialogOutcomes, payload \in FilePayloads :
       OpenDesktopFileDialog(outcome, payload)
  \/ \E contents \in Contents : OpenFileFromBrowser(contents)
  \/ \E to \in ScrollOffsets : ScrollPreview(to)
  \/ \E outcome \in LaunchOutcomes : OpenInVSCode(outcome)

\* ---- the scroll-ratio mapper on its own: any preview size, any offset
\* the user scrolls the preview
ScrollPreviewEl(to) ==
  /\ to \in 0..MaxScrollTop(scrollHeight, clientHeight)
  /\ FromInt(to) # previewScrollTop
  /\ previewScrollTop' = FromInt(to)
  /\ lastOp' = Op("scrollPreviewEl", None)
  /\ UNCHANGED <<handlerVars, componentVars, geometryVars, scrollHeight, clientHeight, previousScrollRatio>>

\* new content is mounted or the window is resized; the engine keeps the offset
\* within the new range
LayoutPreviewEl(height, client) ==
  /\ <<height, client>> # <<scrollHeight, clientHeight>>
  /\ scrollHeight' = height
  /\ clientHeight' = client
  /\ previewScrollTop' = FloatMin(previewScrollTop, FromInt(MaxScrollTop(height, client)))
  /\ lastOp' = Op("layoutPreviewEl", None)
  /\ UNCHANGED <<handlerVars, componentVars, geometryVars, previousScrollRatio>>

\* renderDesktopPayload with preserveScroll: the ratio is taken ...
CapturePreviewScrollRatio ==
  /\ previousScrollRatio' =
       <<[ratio |-> getPreviewScrollRatio(previewScrollTop, scrollHeight, clientHeight),
          scrollTop |-> previewScrollTop,
          scrollHeight |-> scrollHeight,
          clientHeight |-> clientHeight]>>
  /\ lastOp' = Op("getPreviewScrollRatio", None)
  /\ UNCHANGED <<handlerVars, componentVars, geometryVars, scrollHeight, clientHeight, previewScrollTop>>

\* ... and restored in the animation frame callback
RestorePreviewScrollRatio(setter) ==
  /\ previousScrollRatio # <<>>
  /\ previewScrollTop' =
       setScrollTop(
         restorePreviewScrollRatio(previousScrollRatio[1].ratio, scrollHeight, clientHeight),
         setter)
  /\ lastOp' = Op("restorePreviewScrollRatio", None)
  /\ UNCHANGED <<handlerVars, componentVars, geometryVars, scrollHeight, clientHeight, previousScrollRatio>>

\* ---- file-changed re-renders and the animation frames that follow them
\* renderDesktopPayload with preserveScroll, for a payload that renders: the ratio
\* is taken, the new content is mounted (the engine keeps the offset within the new
\* range) and the restore is scheduled
RerenderPreservingScroll(height) ==
  /\ Len(scheduledRestores) < MaxScheduled
  /\ LET ratio == getPreviewScrollRatio(previewScrollTop, scrollHeight, clientHeight)
     IN /\ previousScrollRatio' = <<[ratio |-> ratio,
                                     scrollTop |-> previewScrollTop,
                                     scrollHeight |-> scrollHeight,
                                     clientHeight |-> clientHeight]>>
        /\ scheduledRestores' = Append(scheduledRestores, ratio)
        /\ burstRatio' = IF burstRatio = <<>> THEN <<ratio>> ELSE burstRatio
  /\ scrollHeight' = height
  /\ previewScrollTop' = FloatMin(previewScrollTop, FromInt(MaxScrollTop(height, clientHeight)))
  /\ lastOp' = Op("rerender", None)
  /\ UNCHANGED <<handlerVars, geometryVars, subscriptions, tokens, mainProcess, clientHeight>>

\* the callbacks of one animation frame, in the order they were scheduled
RECURSIVE runScheduledRestores(_, _, _, _)
runScheduledRestores(restores, i, top, setter) ==
  IF i > Len(restores) THEN top
  ELSE runScheduledRestores(restores, i + 1,
         setScrollTop(restorePreviewScrollRatio(restores[i], scrollHeight, clientHeight),
                      setter),
         setter)

AnimationFrame(setter) ==
  /\ scheduledRestores # <<>>
  /\ previewScrollTop' = runScheduledRestores(scheduledRestores, 1, previewScrollTop, setter)
  /\ scheduledRestores' = <<>>
  /\ lastOp' = Op("animationFrame", None)
  /\ UNCHANGED <<handlerVars, geometryVars, subscriptions, tokens, mainProcess, burstRatio,
                 scrollHeight, clientHeight, previousScrollRatio>>

\* the user scrolls the preview: whatever re-render comes next starts a new burst
UserScrolls(to) ==
  /\ to \in 0..MaxScrollTop(scrollHeight, clientHeight)
  /\ previewScrollTop' = FromInt(to)
  /\ burstRatio' = <<>>
  /\ lastOp' = Op("userScrolls", None)
  /\ UNCHANGED <<handlerVars, geometryVars, subscriptions, tokens, mainProcess,
                 scheduledRestores,
                 scrollHeight, clientHeight, previousScrollRatio>>

NextRefresh ==
  \/ \E height \in ScrollHeights : RerenderPreservingScroll(height)
  \/ \E setter \in ScrollTopSetters : AnimationFrame(setter)
  \/ \E to \in 0..MaxScrollHeight : UserScrolls(to)

InitScrollRatio ==
  /\ InitSession
  /\ desktopAPI = "none"
  /\ converterFails = FALSE
  /\ watchFails = FALSE
  /\ readLimit = MaxInFlight
  /\ sourceNodes = DefaultLayout
  /\ scrollHeight \in ScrollHeights
  /\ clientHeight \in ClientHeights
  /\ previewScrollTop \in {FromInt(to) : to \in 0..MaxScrollTop(scrollHeight, clientHeight)}
  /\ previousScrollRatio = <<>>

NextScrollRatio ==
  \/ \E to \in 0..MaxScrollHeight : ScrollPreviewEl(to)
  \/ \E height \in ScrollHeights, client \in ClientHeights : LayoutPreviewEl(height, client)
  \/ CapturePreviewScrollRatio
  \/ \E setter \in ScrollTopSetters : RestorePreviewScrollRatio(setter)

\* ------------------------------------------------------------------ properties
FileWatchActive == lastFileWatchCall.op = "start"
FolderWatchActive == lastFolderWatchCall.op = "start"

FileWatchConsistent ==
  IF autoRefreshEnabled /\ currentFilePath # None
  THEN lastFileWatchCall = StartCall(currentFilePath)
  ELSE lastFileWatchCall \in {StopCall, NoCall}

FolderWatchConsistent ==
  IF currentOpenMode = "folder" /\ currentFolderPath # None
  THEN lastFolderWatchCall = StartCall(currentFolderPath)
  ELSE lastFolderWatchCall \in {StopCall, NoCall}

C2_FolderWatchConsistency == desktopAPI # "none" => FolderWatchConsistent

C2_Witness ==
  /\ currentOpenMode = "folder"
  /\ currentFolderPath # None
  /\ lastFolderWatchCall = StartCall(currentFolderPath)
  /\ lastOp.op = "readFolderDone"

\* C3 as stated: at most one of the two watches is active, the file watch only in
\* single-file mode and the folder watch only in folder mode.
C3_Original ==
  /\ ~(FileWatchActive /\ FolderWatchActive)
  /\ FileWatchActive => currentOpenMode = "single-file"
  /\ FolderWatchActive => currentOpenMode = "folder"

\* C3 amended: the folder watch is active only in folder mode, on the current
\* folder; the file watch is active only on the current file, in either mode.
C3_WatchSelection ==
  /\ FolderWatchActive =>
       currentOpenMode = "folder" /\ lastFolderWatchCall.path = currentFolderPath
  /\ currentOpenMode = "single-file" => ~FolderWatchActive
  /\ FileWatchActive => lastFileWatchCall.path = currentFilePath

C3_Witness ==
  /\ currentOpenMode = "folder"
  /\ FileWatchActive
  /\ FolderWatchActive

\* C4: currentFolderPath is set only in folder mode and folderFiles is non-empty
\* only in folder mode, also while reads are in flight.
C4_FolderFieldsOnlyInFolderMode ==
  /\ currentFolderPath # None => currentOpenMode = "folder"
  /\ folderFiles # <<>> => currentOpenMode = "folder"

\* a folder-entry read is still in flight after the session left folder mode
C4_Witness ==
  /\ currentOpenMode = "single-file"
  /\ \E req \in ReadsInFlight : req.kind = "file" /\ req.mode = "folder"
  /\ folderFiles = <<>>
  /\ currentFolderPath = None

\* a handler that rendered and ended with no active file: the folder placeholders,
\* the browser in-memory file, a payload without path
ClearedActiveFile == stepRenders # <<>> /\ currentFilePath = None

IssuedFileWatchStop ==
  \E i \in 1..Len(stepCalls) : stepCalls[i] = [kind |-> "file", op |-> "stop", path |-> None]

Untouched ==
  /\ UNCHANGED <<sessionVars, preview, baseHref, openVSCodeDisabled,
                 lastFileWatchCall, lastFolderWatchCall>>
  /\ stepRenders' = <<>>
  /\ stepCalls' = <<>>

\* C6: a file-changed notification for another path than the active file's (or
\* without path, or with no active file) changes no session field, renders nothing
\* and issues no watch call.
C6_StaleFileChangeIgnored ==
  [][(lastOp'.op = "fileChanged" /\ (lastOp'.path = None \/ lastOp'.path # currentFilePath))
       => Untouched]_vars

C6_Witness ==
  /\ lastOp.op = "fileChanged"
  /\ lastOp.path # None
  /\ currentFilePath # None
  /\ lastOp.path # currentFilePath
  /\ stepRenders = <<>>

\* C7: a file-changed notification for the active file mounts the payload's
\* content, leaves the session fields as they are and issues no watch call.
C7_FileChangeRerenders ==
  [][(/\ lastOp'.op = "fileChanged"
      /\ lastOp'.path # None
      /\ lastOp'.path = currentFilePath)
       => \A payload \in FilePayloads :
            OnFileChanged(payload)
              => /\ preview' = DocPreview(payload.content)
                 /\ stepRenders' = <<DocPreview(payload.content)>>
                 /\ UNCHANGED sessionVars
                 /\ UNCHANGED <<lastFileWatchCall, lastFolderWatchCall>>
                 /\ stepCalls' = <<>>]_vars

C7_Witness ==
  /\ lastOp.op = "fileChanged"
  /\ lastOp.path # None
  /\ lastOp.path = currentFilePath
  /\ autoRefreshEnabled
  /\ Len(stepRenders) = 1
  /\ preview = stepRenders[1]
  /\ stepCalls = <<>>

\* C8: a folder-changed notification is ignored (no session field changes,
\* nothing rendered, no watch call) unless the mode is folder and its path is the
\* active folder's.
C8_StaleFolderChangeIgnored ==
  [][(/\ lastOp'.op = "folderChanged"
      /\ ~(/\ currentOpenMode = "folder"
           /\ lastOp'.path # None
           /\ lastOp'.path = currentFolderPath))
       => Untouched]_vars

C8_Witness ==
  /\ lastOp.op = "folderChanged"
  /\ currentOpenMode = "folder"
  /\ lastOp.path # None
  /\ lastOp.path # currentFolderPath
  /\ stepCalls = <<>>

IssuedFileWatchCall == \E i \in 1..Len(stepCalls) : stepCalls[i].kind = "file"

\* C9: an applied folder-changed notification replaces folderFiles by the
\* payload's listing; a selection still listed is kept with its rendered content
\* (no render, no file-watch call), otherwise a placeholder is rendered and
\* currentFilePath is cleared.
C9_ReconcileFolderListing ==
  [][(/\ lastOp'.op = "folderChanged"
      /\ lastOp'.path # None
      /\ currentOpenMode = "folder"
      /\ lastOp'.path = currentFolderPath)
       => \A payload \in FolderPayloads :
            OnFolderChanged(payload)
              => /\ folderFiles' = payload.files
                 /\ UNCHANGED <<currentOpenMode, currentFolderPath>>
                 /\ IF HasSelection(payload.files, currentFilePath)
                    THEN /\ UNCHANGED <<currentFilePath, preview, lastFileWatchCall>>
                         /\ stepRenders' = <<>>
                         /\ ~IssuedFileWatchCall'
                    ELSE /\ currentFilePath' = None
                         /\ preview' \in {EmptyPreview, PromptPreview}
                         /\ stepRenders' = <<preview'>>]_vars

C9_Witness ==
  /\ lastOp.op = "folderChanged"
  /\ currentOpenMode = "folder"
  /\ lastOp.path = currentFolderPath
  /\ currentFilePath # None
  /\ HasSelection(folderFiles, currentFilePath)
  /\ preview.kind = "doc"
  /\ stepRenders = <<>>
  /\ stepCalls # <<>>

\* a folder listing was applied by the last handler: a folder picked in the
\* dialog, a folder read completed, or a folder-changed notification taken
FolderListingApplied ==
  \/ lastOp.op \in {"openFolderDialog", "readFolderDone"}
  \/ lastOp.op = "folderChanged" /\ stepCalls # <<>>

\* C10: after a folder load or reconcile with an empty listing the "no documents"
\* placeholder is shown, there is no active file, the editor action is disabled,
\* the folder watch is active on the folder and the file watch is not active.
C10_EmptyFolder ==
  (FolderListingApplied /\ folderFiles = <<>>)
    => /\ preview = EmptyPreview
       /\ stepRenders = <<EmptyPreview>>
       /\ currentFilePath = None
       /\ openVSCodeDisabled
       /\ currentOpenMode = "folder"
       /\ currentFolderPath # None
       /\ lastFolderWatchCall = StartCall(currentFolderPath)
       /\ lastFileWatchCall = StopCall

C10_Witness ==
  /\ lastOp.op = "folderChanged"
  /\ stepCalls # <<>>
  /\ folderFiles = <<>>
  /\ preview = EmptyPreview
  /\ FolderWatchActive

\* a folder load: a folder picked in the dialog, or a folder read completed
FolderLoadOps == {"openFolderDialog", "readFolderDone"}

\* C11: a folder load with a non-empty listing, and a folder-changed reconcile
\* whose non-empty listing lacks the active file, render the "select a file"
\* placeholder (which is not the empty-folder placeholder) and end in folder mode
\* with no active file, the folder watch started on the folder and the file watch
\* stopped.
C11_SelectionPrompt ==
  [][(/\ \/ lastOp'.op \in FolderLoadOps
         \/ /\ lastOp'.op = "folderChanged"
            /\ stepCalls' # <<>>
            /\ ~HasSelection(folderFiles', currentFilePath)
      /\ folderFiles' # <<>>)
       => /\ preview' = PromptPreview
          /\ PromptPreview # EmptyPreview
          /\ stepRenders' = <<PromptPreview>>
          /\ currentOpenMode' = "folder"
          /\ currentFilePath' = None
          /\ openVSCodeDisabled'
          /\ currentFolderPath' # None
          /\ lastFolderWatchCall' = StartCall(currentFolderPath')
          /\ lastFileWatchCall' = StopCall]_vars

\* a folder with two entries loaded while no file was active
C11_Witness ==
  /\ lastOp = Op("readFolderDone", None)
  /\ Len(folderFiles) = 2
  /\ preview = PromptPreview
  /\ currentFilePath = None
  /\ FolderWatchActive
  /\ lastFileWatchCall = StopCall

\* C12 as stated: a folder load keeps the active file and its rendered content
\* when the file is in the loaded listing, and selects none only when it is not.
C12_Original ==
  [][lastOp'.op \in FolderLoadOps
       => IF HasSelection(folderFiles', currentFilePath)
          THEN UNCHANGED <<currentFilePath, preview>>
          ELSE currentFilePath' = None]_vars

\* C12 amended: a folder load (folder picker or external folder open) never
\* carries the active file over: it ends with no active file and a placeholder,
\* also when the file is in the loaded listing.
C12_FolderLoadSelectsNone ==
  [][lastOp'.op \in FolderLoadOps
       => /\ currentFilePath' = None
          /\ openVSCodeDisabled'
          /\ preview' = (IF folderFiles' = <<>> THEN EmptyPreview ELSE PromptPreview)
          /\ stepRenders' = <<preview'>>
          /\ lastFileWatchCall' = StopCall]_vars

\* the file that was active is in the loaded listing, and it is not selected
C12_Witness ==
  /\ lastOp.op \in FolderLoadOps
  /\ lastOp.path # None
  /\ HasSelection(folderFiles, lastOp.path)
  /\ currentFilePath = None
  /\ preview = PromptPreview

IsFileTarget(target) ==
  /\ target.path # None
  /\ \/ target.shape = "string"
     \/ target.shape = "object" /\ target.targetType = "file"

IsFolderTarget(target) ==
  target.path # None /\ target.shape = "object" /\ target.targetType = "folder"

OpenTargetOps == {"externalOpen", "openOnLaunch", "consumePending"}

TargetArrives(target) ==
  OnExternalFileOpen(target) \/ OnOpenOnLaunch(target) \/ ConsumePending(target)

\* C13: an open target that is a non-empty path string, or an object of type
\* file with a path, starts one single-file read of that path (after entering
\* single-file mode); an object of type folder with a path starts one folder read
\* of that path and changes no session field; every other target (null, no path,
\* unknown type) changes nothing, starts no read and issues no watch call.
C13_NormalizeAndDispatch ==
  [][lastOp'.op \in OpenTargetOps
       => \A target \in OpenTargets :
            TargetArrives(target)
              => IF IsFileTarget(target)
                 THEN /\ \E drain \in BOOLEAN :
                           pendingReads' =
                             StartRead(pendingReads,
                                       ReadRequest("file", target.path, "single-file", drain))
                      /\ Len(pendingReads') = Len(pendingReads) + 1
                      /\ currentOpenMode' = "single-file"
                 ELSE IF IsFolderTarget(target) /\ HasFolderAPI
                 THEN /\ \E drain \in BOOLEAN :
                           pendingReads' =
                             StartRead(pendingReads,
                                       ReadRequest("folder", target.path, "none", drain))
                      /\ Len(pendingReads') = Len(pendingReads) + 1
                      /\ Untouched
                 ELSE Untouched /\ pendingReads' = pendingReads]_vars

C13_Witness ==
  /\ lastOp.op = "externalOpen"
  /\ currentOpenMode = "single-file"
  /\ \E req \in ReadsInFlight : req.kind = "folder" /\ req.path # None /\ ~req.drain

\* the reads a step has started
StartedReads ==
  {pendingReads'[k] : k \in (Len(pendingReads) + 1)..Len(pendingReads')}

\* C14: with the bridge that offers consumePendingExternalOpenTarget, the pending
\* target is consumed in one step of the startup, which is never taken again; that
\* step starts exactly one read if the target is a valid one and none otherwise,
\* and no other step starts the read of a drained target; the external-open
\* subscription handles targets only after that, one read per target at most.
C14_PendingDrainedOnce ==
  [][/\ lastOp'.op = "consumePending"
          => /\ phase = "consume"
             /\ phase' \in {"draining", "bound"}
             /\ \A target \in OpenTargets :
                  ConsumePending(target)
                    => IF IsFileTarget(target) \/ IsFolderTarget(target)
                       THEN /\ phase' = "draining"
                            /\ Len(pendingReads') = Len(pendingReads) + 1
                            /\ \A req \in StartedReads :
                                 req.drain /\ req.path = target.path
                       ELSE phase' = "bound" /\ pendingReads' = pendingReads
     /\ phase \notin {"startup", "consume"} => phase' \notin {"startup", "consume"}
     /\ (phase = "consume" /\ phase' # "consume") => lastOp'.op = "consumePending"
     /\ (phase = "startup" /\ desktopAPI = "full") => phase' \in {"startup", "consume"}
     /\ (\E req \in StartedReads : req.drain) => lastOp'.op = "consumePending"
     /\ lastOp'.op = "externalOpen"
          => /\ phase = "bound"
             /\ Len(pendingReads') <= Len(pendingReads) + 1
             /\ \A req \in StartedReads : ~req.drain]_vars

\* the drained target was opened and a later target is being read for the subscription
C14_Witness ==
  /\ phase = "bound"
  /\ desktopAPI = "full"
  /\ lastOp.op = "externalOpen"
  /\ currentFilePath # None
  /\ \E req \in ReadsInFlight : ~req.drain

\* the handlers of explicit user actions that ended in a rejected collaborator
\* call: the file dialog, the folder dialog, the read of a clicked folder entry,
\* the editor launch
FailedUserActionOps ==
  {"openFileDialog", "openFolderDialogNone", "readEntryFail", "openInVSCode"}

FailedUserAction == stepThrew /\ lastOp.op \in FailedUserActionOps

\* C15: when the collaborator call of a user action fails (file dialog, folder
\* dialog, read of a clicked folder entry, editor launch), no session field changes:
\* neither in the step that takes the failure nor, for the folder entry, in the click
\* that started the read.
C15_FailedActionKeepsSession ==
  [][/\ FailedUserAction' => UNCHANGED sessionVars
     /\ lastOp'.op = "selectFolderEntry" => UNCHANGED sessionVars]_vars

\* the read of a clicked folder entry was rejected; the folder is still open
C15_Witness ==
  /\ stepThrew
  /\ lastOp.op = "readEntryFail"
  /\ currentOpenMode = "folder"
  /\ currentFolderPath # None
  /\ folderFiles # <<>>

\* C16 as stated: a user action whose collaborator call failed has put a notice on
\* the user-visible surface.
C16_Original == FailedUserAction => stepNotices # <<>>

IssuedFolderWatchCall == \E i \in 1..Len(stepCalls) : stepCalls[i].kind = "folder"

\* C17: when the collaborator rejects the watch calls, every rejection is only
\* logged; the handler that issued the call still completes its transition (the
\* folder stays entered and its placeholder is rendered, the picked file is
\* rendered, the toggle stays flipped), and every handler that issues a watch call
\* issues the one its own resulting session state asks for.
C17_WatchFailureIsHarmless ==
  [][stepWatchErrors' > 0
       => /\ stepWatchErrors' = Len(stepCalls')
          /\ IssuedFileWatchCall' => FileWatchConsistent'
          /\ IssuedFolderWatchCall' => FolderWatchConsistent'
          /\ lastOp'.op \in FolderLoadOps
               => /\ currentOpenMode' = "folder"
                  /\ currentFolderPath' # None
                  /\ currentFilePath' = None
                  /\ stepRenders' # <<>>
                  /\ ~stepThrew'
          /\ lastOp'.op = "openFileDialog"
               => /\ currentOpenMode' = "single-file"
                  /\ stepRenders' # <<>>
                  /\ ~stepThrew'
          /\ lastOp'.op = "toggleAutoRefresh"
               => /\ autoRefreshEnabled' = ~autoRefreshEnabled
                  /\ UNCHANGED <<currentFilePath, currentFolderPath, currentOpenMode, folderFiles>>
                  /\ Len(stepCalls') = 1]_vars

\* both watch calls of a folder load were rejected and the folder is entered
C17_Witness ==
  /\ watchFails
  /\ lastOp.op = "readFolderDone"
  /\ stepWatchErrors = 2
  /\ currentOpenMode = "folder"
  /\ currentFolderPath # None
  /\ lastFolderWatchCall = StartCall(currentFolderPath)
  /\ preview = PromptPreview

\* C18 as stated: every getCurrentSourceLine call returns an integer >= 1.
C18_Original == resolved # <<>> => resolved[1].line \in Nat /\ resolved[1].line >= 1

\* the blocks lie in document order: each one after or inside every earlier one,
\* with line ranges that start at 1 or later and do not end before they start
InDocumentOrder(nodes) ==
  /\ \A i \in 1..Len(nodes) : nodes[i].startLine >= 1 /\ nodes[i].endLine >= nodes[i].startLine
  /\ \A i, j \in 1..Len(nodes) :
       i < j => FollowsNode(nodes[i], nodes[j]) \/ NestedNode(nodes[i], nodes[j])

\* C19 as stated: for a fixed layout of blocks in document order, a call further
\* down never returns a smaller line than a call further up.
C19_Original ==
  [][(/\ InDocumentOrder(sourceNodes)
      /\ resolved # <<>>
      /\ resolved' # <<>>
      /\ resolved[1].at < resolved'[1].at)
       => resolved[1].line <= resolved'[1].line]_vars

\* the threshold lies at exactly half of the block's height
ThresholdAtHalf(node, scroll) ==
  LET rect == getBoundingClientRect(node, scroll)
  IN 2 * (getViewportTop - rect.top) = rect.height

ScenarioResolved ==
  /\ sourceNodes = ScenarioLayout
  /\ resolved # <<>>
  /\ ThresholdAtHalf(ScenarioLayout[3], resolved[1].at)

\* C20 as stated: for the blocks {1,5}, {6,6}, {7,12} and the threshold at half of
\* the height of block {7,12}, the call returns 9.
C20_Original == ScenarioResolved => resolved[1].line = 9

\* C20 amended: in that scenario the call returns 10, since Math.round takes
\* 0.5 * 5 = 2.5 up to 3.
C20_HalfwayResolvesTo10 == ScenarioResolved => resolved[1].line = 10

C20_Witness == ScenarioResolved /\ resolved[1].line = 7 + 3

\* two offsets differ by at most one pixel
WithinOnePixel(a, b) ==
  LET x == a.sig * 2^b.exp
      y == b.sig * 2^a.exp
  IN x - y <= 2^(a.exp + b.exp) /\ y - x <= 2^(a.exp + b.exp)

\* the preview has the size it had when the ratio was taken
SizeAsCaptured ==
  /\ previousScrollRatio # <<>>
  /\ previousScrollRatio[1].scrollHeight = scrollHeight
  /\ previousScrollRatio[1].clientHeight = clientHeight

\* C21: when the preview has the same content height and window height as when the
\* ratio was taken, restoring the ratio sets an offset within one pixel of the
\* offset at which it was taken, whatever that offset was and wherever the preview
\* was scrolled in between.
C21_ScrollRatioRoundTrip ==
  [][(lastOp'.op = "restorePreviewScrollRatio" /\ SizeAsCaptured)
       => WithinOnePixel(previewScrollTop', previousScrollRatio[1].scrollTop)]_vars

\* a ratio that is not a whole number was restored, and the offset it was taken at
\* is back, but for a fraction of a pixel
C21_Witness ==
  /\ lastOp.op = "restorePreviewScrollRatio"
  /\ SizeAsCaptured
  /\ previousScrollRatio[1].ratio.exp > 0
  /\ previousScrollRatio[1].scrollTop.sig > 0
  /\ previewScrollTop # previousScrollRatio[1].scrollTop
  /\ WithinOnePixel(previewScrollTop, previousScrollRatio[1].scrollTop)

\* C33: a ratio that was taken lies in [0, 1] and is 0 when the content did not
\* overflow the window; a restore assigns max(0, min(maxScroll, maxScroll * ratio))
\* with maxScroll = scrollHeight - clientHeight of the moment, or 0 without
\* overflow, and the offset after it lies in [0, max(0, maxScroll)].
C33_RatioAndRestoreInRange ==
  /\ [](previousScrollRatio # <<>>
          => /\ FloatLeq(FromInt(0), previousScrollRatio[1].ratio)
             /\ FloatLeq(previousScrollRatio[1].ratio, FromInt(1))
             /\ previousScrollRatio[1].scrollHeight <= previousScrollRatio[1].clientHeight
                  => previousScrollRatio[1].ratio = FromInt(0))
  /\ [][lastOp'.op = "restorePreviewScrollRatio"
          => LET maxScroll == scrollHeight - clientHeight
                 product == FloatMul(maxScroll, previousScrollRatio[1].ratio)
                 target == IF maxScroll <= 0 THEN FromInt(0)
                           ELSE IF FloatLeq(product, FromInt(0)) THEN FromInt(0)
                           ELSE IF FloatLeq(FromInt(maxScroll), product) THEN FromInt(maxScroll)
                           ELSE product
             IN /\ \E setter \in ScrollTopSetters : previewScrollTop' = setScrollTop(target, setter)
                /\ FloatLeq(FromInt(0), previewScrollTop')
                /\ FloatLeq(previewScrollTop', FromInt(Max(0, maxScroll)))]_vars

\* a ratio strictly between 0 and 1, taken at one size, was restored at a larger
\* size; and a ratio taken without overflow is 0
C33_Witness ==
  /\ lastOp.op = "restorePreviewScrollRatio"
  /\ previousScrollRatio[1].ratio.exp > 0
  /\ scrollHeight - clientHeight
       > previousScrollRatio[1].scrollHeight - previousScrollRatio[1].clientHeight
  /\ previewScrollTop.sig > 0
  /\ FloatLeq(previewScrollTop, FromInt(scrollHeight - clientHeight))

\* C34 as stated: a re-render takes the ratio before the new content is mounted
\* and restores it only in a later animation frame; and once the restores of a
\* burst of re-renders without user scrolling have all run, the preview is at the
\* ratio it had before the first re-render of the burst (here: within a pixel of
\* the offset that ratio stands for).
C34_Original ==
  /\ [][lastOp'.op = "rerender"
          => /\ scheduledRestores' =
                  Append(scheduledRestores,
                         getPreviewScrollRatio(previewScrollTop, scrollHeight, clientHeight))
             /\ FloatLeq(previewScrollTop', previewScrollTop)]_vars
  /\ []((lastOp.op = "animationFrame" /\ scheduledRestores = <<>> /\ burstRatio # <<>>)
          => WithinOnePixel(previewScrollTop,
                            restorePreviewScrollRatio(burstRatio[1], scrollHeight, clientHeight)))

\* each reconciliation of the last handler issued one call, of its own kind
CallsMatchSyncs ==
  /\ Len(stepCalls) = Len(stepSyncs)
  /\ \A i \in 1..Len(stepCalls) :
       stepCalls[i].kind = stepSyncs[i] /\ stepCalls[i].op \in {"start", "stop"}

IsFileSync(kind) == kind = "file"

PriorCalls == {NoCall, StopCall} \cup {StartCall(path) : path \in FilePaths \cup FolderPaths}

reconcileWatches(s) ==
  syncFolderWatcher(syncAutoRefreshWatcher([s EXCEPT !.calls = <<>>, !.syncs = <<>>]))

IsFileCall(call) == call.kind = "file"
IsFolderCall(call) == call.kind = "folder"

\* C23: a reconciliation run right after another one, with the session unchanged,
\* issues the same calls with the same arguments and leaves the last issued call of
\* each kind as it is: both after a handler that ran a reconciliation and when the
\* two reconciliations are run twice from any reachable session state.
C23_ReconciliationIdempotent ==
  LET again == reconcileWatches(Cur)
      twice == reconcileWatches(again)
  IN /\ twice.calls = again.calls
     /\ twice.lastFileWatchCall = again.lastFileWatchCall
     /\ twice.lastFolderWatchCall = again.lastFolderWatchCall
     /\ IssuedFileWatchCall
          => /\ SelectSeq(again.calls, IsFileCall)
                  = <<SelectSeq(stepCalls, IsFileCall)[Len(SelectSeq(stepCalls, IsFileCall))]>>
             /\ again.lastFileWatchCall = lastFileWatchCall
     /\ IssuedFolderWatchCall
          => /\ SelectSeq(again.calls, IsFolderCall)
                  = <<SelectSeq(stepCalls, IsFolderCall)[Len(SelectSeq(stepCalls, IsFolderCall))]>>
             /\ again.lastFolderWatchCall = lastFolderWatchCall

\* a reconcile of the folder listing has started the folder watch; running the
\* reconciliation again starts it on the same folder
C23_Witness ==
  /\ lastOp.op = "folderChanged"
  /\ stepCalls = <<[kind |-> "folder", op |-> "start", path |-> currentFolderPath]>>
  /\ currentFilePath # None
  /\ reconcileWatches(Cur).calls
       = <<[kind |-> "file", op |-> lastFileWatchCall.op, path |-> lastFileWatchCall.path],
           [kind |-> "folder", op |-> "start", path |-> currentFolderPath]>>

\* the options carry a boolean autoRefresh
CarriesAutoRefresh(options) == ~options.nil /\ options.hasAutoRefresh

\* C24: the session starts in single-file mode with no file, no folder, an empty
\* listing and auto-refresh on; the first application of the startup options sets
\* autoRefreshEnabled if the options carry it, runs no reconciliation and issues no
\* watch call; every live update that carries a boolean autoRefresh sets
\* autoRefreshEnabled and runs the file-watch reconciliation once, which issues one
\* file-watch call; neither changes another session field, and a live update
\* without autoRefresh does nothing.
C24_StartupOptions ==
  /\ currentOpenMode = "single-file"
  /\ currentFilePath = None
  /\ currentFolderPath = None
  /\ folderFiles = <<>>
  /\ autoRefreshEnabled = TRUE
  /\ [][/\ lastOp'.op = "startupOptions"
             => /\ phase = "startup"
                /\ stepSyncs' = <<>>
                /\ stepCalls' = <<>>
                /\ UNCHANGED <<lastFileWatchCall, lastFolderWatchCall>>
                /\ UNCHANGED <<currentFilePath, currentFolderPath, currentOpenMode, folderFiles>>
                /\ \A options \in StartupOptions :
                     StartupOptionsArrive(options)
                       => autoRefreshEnabled' = IF CarriesAutoRefresh(options)
                                                THEN options.autoRefresh
                                                ELSE autoRefreshEnabled
        /\ lastOp'.op = "startupOptionsUpdated"
             => /\ phase # "startup"
                /\ UNCHANGED <<currentFilePath, currentFolderPath, currentOpenMode, folderFiles>>
                /\ \A options \in StartupOptions :
                     OnStartupOptions(options)
                       => IF CarriesAutoRefresh(options)
                          THEN /\ autoRefreshEnabled' = options.autoRefresh
                               /\ stepSyncs' = <<"file">>
                               /\ Len(stepCalls') = 1
                               /\ stepCalls'[1].kind = "file"
                               /\ FileWatchConsistent'
                          ELSE /\ Untouched
                               /\ stepSyncs' = <<>>]_vars

\* a live update switched auto-refresh off while a file was open: one stop call
C24_Witness ==
  /\ lastOp.op = "startupOptionsUpdated"
  /\ ~autoRefreshEnabled
  /\ currentFilePath # None
  /\ stepSyncs = <<"file">>
  /\ stepCalls = <<[kind |-> "file", op |-> "stop", path |-> None]>>

Next ==
  \/ \E options \in StartupOptions : StartupOptionsArrive(options)
  \/ \E options \in StartupOptions : OnStartupOptions(options)
  \/ ToggleAutoRefresh
  \/ \E outcome \in DialogOutcomes, payload \in FilePayloads :
       OpenDesktopFileDialog(outcome, payload)
  \/ \E outcome \in DialogOutcomes, payload \in FolderPayloads :
       OpenDesktopFolderDialog(outcome, payload)
  \/ \E contents \in Contents : OpenFileFromBrowser(contents)
  \/ \E path \in FilePaths : SelectFolderEntry(path)
  \/ \E target \in OpenTargets : OnExternalFileOpen(target)
  \/ \E target \in OpenTargets : OnOpenOnLaunch(target)
  \/ \E target \in OpenTargets : ConsumePending(target)
  \/ \E i \in DOMAIN pendingReads, payload \in FilePayloads : ReadFileDone(i, payload)
  \/ \E i \in DOMAIN pendingReads : ReadFail(i)
  \/ \E i \in DOMAIN pendingReads, payload \in FolderPayloads : ReadFolderDone(i, payload)
  \/ \E payload \in FilePayloads : OnFileChanged(payload)
  \/ \E payload \in FolderPayloads : OnFolderChanged(payload)
  \/ \E outcome \in LaunchOutcomes : OpenInVSCode(outcome)

\* the handlers that load a file: the file dialog, a completed file read, a
\* file-changed notification
FileLoadOps == {"openFileDialog", "readFileDone", "fileChanged"}

\* the last handler was a file load that ended in an exception with the base href
\* already set: markdown.render threw
ConverterThrew == stepThrew /\ lastOp.op \in FileLoadOps

\* C26 as stated: a file load in which the converter throws mounts nothing and
\* leaves the visible content, the base href and every session field as they were.
C26_Original ==
  [][ConverterThrew' => UNCHANGED <<preview, baseHref, sessionVars>>]_vars

\* C27: only the editor action calls the launcher, only while there is an active
\* file, once per action, for that file and with the line resolved from the current
\* scroll position, and it leaves the session as it was; the launcher turns that
\* line into an integer >= 1, taking a line below 1 or one that is not a number to 1
\* and keeping every other.
C27_EditorLaunch ==
  [][/\ lastOp'.op # "openInVSCode" => (stepEditorCall' = <<>> \/ UNCHANGED handlerVars)
     /\ lastOp'.op = "openInVSCode"
          => /\ currentFilePath # None
             /\ Len(stepEditorCall') = 1
             /\ stepEditorCall'[1].path = currentFilePath
             /\ stepEditorCall'[1].line = getCurrentSourceLine(sourceNodes, scrollTop)
             /\ LET target == openInVSCodeAtLine(stepEditorCall'[1].path,
                                                 stepEditorCall'[1].line)
                IN /\ target.path = currentFilePath
                   /\ target.line \in Nat
                   /\ target.line >= 1
                   /\ (stepEditorCall'[1].line # NaN /\ stepEditorCall'[1].line >= 1)
                        => target.line = stepEditorCall'[1].line
             /\ UNCHANGED sessionVars]_vars

\* the line resolved for the active file was below 1 or not a number, and the
\* launcher opens the file at line 1
C27_Witness ==
  /\ lastOp.op = "openInVSCode"
  /\ currentFilePath # None
  /\ Len(stepEditorCall) = 1
  /\ stepEditorCall[1].path = currentFilePath
  /\ stepEditorCall[1].line < 1
  /\ openInVSCodeAtLine(stepEditorCall[1].path, stepEditorCall[1].line).line = 1

\* C29 as stated: in every startup run with a bridge, the callbacks for external
\* opens, file changes and folder changes are eventually registered, also when the
\* open of the drained pending target fails.
C29_Original == (desktopAPI # "none") ~> (phase = "bound")

\* the blocks the threshold of a call has not passed, those that contain it and
\* those below it, by index
RectAt(i) == getBoundingClientRect(sourceNodes[i], resolved[1].at)

ContainingBlocks ==
  {i \in DOMAIN sourceNodes :
     RectAt(i).bottom > getViewportTop /\ RectAt(i).top <= getViewportTop}

BelowBlocks == {i \in DOMAIN sourceNodes : RectAt(i).top > getViewportTop}

ChosenBlocks ==
  IF ContainingBlocks # {}
  THEN {i \in ContainingBlocks : \A j \in ContainingBlocks : RectAt(j).top <= RectAt(i).top}
  ELSE {i \in BelowBlocks : \A j \in BelowBlocks : RectAt(i).top <= RectAt(j).top}

InLineRange(line, node) ==
  /\ line # NaN /\ node.startLine # NaN /\ node.endLine # NaN
  /\ node.startLine <= line
  /\ line <= node.endLine

\* start + round(progress * (end - start)), progress clamped to [0, 1]
RefinedLine(i) ==
  LET node == sourceNodes[i]
      rect == RectAt(i)
      offset == Max(0, Min(rect.height, getViewportTop - rect.top))
  IN node.startLine + MathRound(offset * (node.endLine - node.startLine), rect.height)

\* C31 as stated: a call chooses the containing block with the greatest top, or
\* without a containing block the block below the threshold with the smallest top;
\* for a block below it returns the start line, for a containing block
\* start + round(progress * (end - start)); the result lies in [start, end] of the
\* chosen block.
C31_Original ==
  (resolved # <<>> /\ ChosenBlocks # {})
    => \E i \in ChosenBlocks :
         /\ resolved[1].line = IF i \in ContainingBlocks THEN RefinedLine(i)
                                ELSE sourceNodes[i].startLine
         /\ InLineRange(resolved[1].line, sourceNodes[i])

\* C31 for blocks whose lines are numbers with end >= start
C31_ForSaneBlocks ==
  (\A i \in DOMAIN sourceNodes : InLineRange(sourceNodes[i].startLine, sourceNodes[i]))
    => C31_Original

\* C32: the rule annotates exactly the opening block tokens that have a map, and
\* for a map [s, e] it attaches the start line s + 1 and the end line e, or s + 1
\* where e is smaller: every annotated block has end >= start >= 1, a zero-width
\* entry (e <= s) included.
C32_PluginAnnotation ==
  \A i \in DOMAIN tokens :
    LET token == tokens[i].token
        attrs == tokens[i].attrs
    IN /\ attrs # <<>> <=> (token.map # <<>> /\ token.nesting = 1 /\ token.open)
       /\ attrs # <<>>
            => LET s == token.map[1][1]
                   e == token.map[1][2]
               IN /\ attrs[1].startLine = s + 1
                  /\ attrs[1].endLine = IF e > s + 1 THEN e ELSE s + 1
                  /\ attrs[1].endLine >= attrs[1].startLine
                  /\ attrs[1].startLine >= 1

\* a zero-width entry was annotated after an entry of several lines
C32_Witness ==
  /\ Len(tokens) = 2
  /\ tokens[1].attrs # <<>>
  /\ tokens[1].attrs[1].endLine > tokens[1].attrs[1].startLine
  /\ tokens[2].attrs # <<>>
  /\ tokens[2].token.map[1][2] < tokens[2].token.map[1][1]
  /\ tokens[2].attrs[1].endLine = tokens[2].attrs[1].startLine

ExternalOpenOps == {"externalOpen", "openOnLaunch", "consumePending"}

FolderWatchStop == [kind |-> "folder", op |-> "stop", path |-> None]

\* the user has just switched auto-refresh off for the active file: the stop call
\* is issued, and a notification the watcher sent before may still arrive
JustSwitchedOff ==
  /\ lastOp.op = "toggleAutoRefresh"
  /\ ~autoRefreshEnabled
  /\ currentFilePath # None
  /\ stepCalls = <<[kind |-> "file", op |-> "stop", path |-> None]>>

\* C38 as stated, in the case it names: while autoRefreshEnabled is false a
\* file-changed notification mounts nothing, also the one for the active file that
\* arrives right after the user has switched auto-refresh off.
C38_Original ==
  [][(JustSwitchedOff /\ lastOp'.op = "fileChanged")
       => (stepRenders' = <<>> /\ preview' = preview)]_vars

\* ---- C39
PendingIds == {mainProcess.pendingExternalOpenPaths[i].id :
                 i \in DOMAIN mainProcess.pendingExternalOpenPaths}

\* what the main process handed over for requests queueExternalOpen accepted
ExternalHandOvers == SelectSeq(mainProcess.handed, LAMBDA h : h.via # "launch")

\* the hand-overs of requests that went through the pending queue
QueueLeavers == SelectSeq(mainProcess.handed, LAMBDA h : h.via \in {"flush", "consume"})

AsFlushed(queue) == [i \in DOMAIN queue |-> [id |-> queue[i].id, path |-> queue[i].path,
                                              via |-> "flush"]]

AsConsumed(request) == [id |-> request.id, path |-> request.path, via |-> "consume"]

\* C39: every request queueExternalOpen accepts (a markdown path) reaches a renderer at
\* most once, by the direct send, by flushPendingExternalOpens or as the answer of the
\* consume-pending handler; a request in the pending queue has not been handed over,
\* one sent directly is never queued; requests leave the queue oldest first, and only
\* the did-finish-load flush and the consume-pending handler remove them, each
\* handing over what it removes.
C39_ExternalOpenOnce ==
  /\ [](/\ \A i, j \in DOMAIN ExternalHandOvers :
             i # j => ExternalHandOvers[i].id # ExternalHandOvers[j].id
        /\ \A i \in DOMAIN ExternalHandOvers :
             /\ isMarkdownPath(ExternalHandOvers[i].path)
             /\ ExternalHandOvers[i].id \notin PendingIds
        /\ \A i, j \in DOMAIN mainProcess.pendingExternalOpenPaths :
             i < j => mainProcess.pendingExternalOpenPaths[i].id
                        < mainProcess.pendingExternalOpenPaths[j].id
        /\ \A i, j \in DOMAIN QueueLeavers : i < j => QueueLeavers[i].id < QueueLeavers[j].id
        /\ \A i \in DOMAIN QueueLeavers : \A id \in PendingIds : QueueLeavers[i].id < id)
  /\ [][LET queue == mainProcess.pendingExternalOpenPaths
            queueAfter == mainProcess'.pendingExternalOpenPaths
            handedBefore == ExternalHandOvers
            handedAfter == ExternalHandOvers'
        IN /\ (Len(queueAfter) < Len(queue)) =>
                \/ /\ lastOp'.op = "did-finish-load"
                   /\ queueAfter = <<>>
                   /\ handedAfter = handedBefore \o AsFlushed(queue)
                \/ /\ lastOp'.op = "consume-pending"
                   /\ queueAfter = Tail(queue)
                   /\ handedAfter = Append(handedBefore, AsConsumed(Head(queue)))
           /\ (Len(queueAfter) > Len(queue)) =>
                /\ lastOp'.op = "open-file"
                /\ isMarkdownPath(lastOp'.path)
                /\ mainProcess.mainWindow # "loaded"
                /\ queueAfter = Append(queue, [id |-> mainProcess'.opened,
                                               path |-> lastOp'.path])
                /\ handedAfter = handedBefore
           /\ (Len(queueAfter) = Len(queue)) =>
                /\ queueAfter = queue
                /\ \/ handedAfter = handedBefore
                   \/ /\ lastOp'.op = "open-file"
                      /\ mainProcess.mainWindow = "loaded"
                      /\ handedAfter = Append(handedBefore,
                                              [id |-> mainProcess'.opened,
                                               path |-> lastOp'.path, via |-> "send"])]_vars

\* one run in which a request was sent directly, one was flushed on did-finish-load
\* and one was taken by the consume-pending handler
C39_Witness ==
  /\ {ExternalHandOvers[i].via : i \in DOMAIN ExternalHandOvers}
       = {"send", "flush", "consume"}
  /\ mainProcess.pendingExternalOpenPaths = <<>>

\* C37 as stated: in folder mode the active file is none or an entry of the current
\* listing, in every reachable state, reads that complete late included.
C37_Original ==
  currentOpenMode = "folder"
    => currentFilePath = None \/ HasSelection(folderFiles, currentFilePath)

EntersSingleFileMode(t) ==
  /\ t.currentOpenMode = "single-file"
  /\ t.currentFolderPath = None
  /\ t.folderFiles = <<>>
  /\ t.currentFilePath = currentFilePath
  /\ t.autoRefreshEnabled = autoRefreshEnabled
  /\ t.preview = preview
  /\ t.baseHref = baseHref
  /\ t.renders = <<>>
  /\ t.lastFileWatchCall = lastFileWatchCall
  /\ \A i \in 1..Len(t.calls) : t.calls[i].kind # "file"

\* C35 as stated: from any state enterSingleFileMode sets the mode to single-file,
\* clears the folder and its entries, issues exactly one folder-watch stop call and
\* leaves the active file, the toggle, the content and the file watch untouched.
C35_Original ==
  LET t == enterSingleFileMode(Cur)
  IN EntersSingleFileMode(t) /\ t.calls = <<FolderWatchStop>>

\* C35 amended: the same, with the one folder-watch stop call issued where the
\* bridge has the folder functions and no call at all otherwise; and an external
\* open of a file, whose first step is enterSingleFileMode alone, changes the
\* state in just this way.
C35_EnterSingleFileMode ==
  /\ [](LET t == enterSingleFileMode(Cur)
        IN /\ EntersSingleFileMode(t)
           /\ t.calls = IF HasFolderAPI THEN <<FolderWatchStop>> ELSE <<>>
           /\ HasFolderAPI => t.lastFolderWatchCall = StopCall)
  /\ [][(lastOp'.op \in ExternalOpenOps /\ \E req \in StartedReads : req.kind = "file")
          => /\ currentOpenMode' = "single-file"
             /\ currentFolderPath' = None
             /\ folderFiles' = <<>>
             /\ stepCalls' = IF HasFolderAPI THEN <<FolderWatchStop>> ELSE <<>>
             /\ stepRenders' = <<>>
             /\ UNCHANGED <<currentFilePath, autoRefreshEnabled, preview, baseHref,
                            lastFileWatchCall>>]_vars

\* an external open of a file has left the folder: the folder watch was stopped,
\* the file that was shown is still active, shown and watched
C35_Witness ==
  /\ lastOp.op = "externalOpen"
  /\ \E req \in ReadsInFlight : req.kind = "file"
  /\ stepCalls = <<FolderWatchStop>>
  /\ currentOpenMode = "single-file"
  /\ folderFiles = <<>>
  /\ currentFilePath # None
  /\ preview.kind = "doc"
  /\ lastFileWatchCall = StartCall(currentFilePath)
  /\ lastFolderWatchCall = StopCall

\* C30 as stated: an external open request of kind file that arrives in folder mode
\* and whose read fails leaves the session as it was: neither the step that takes
\* the request and starts the read nor the step in which the read is rejected
\* changes the mode, the active folder, the listing or the folder watch.
C30_Original ==
  [][/\ (/\ lastOp'.op \in ExternalOpenOps
          /\ currentOpenMode = "folder"
          /\ \E req \in StartedReads : req.kind = "file")
         => UNCHANGED <<currentOpenMode, currentFolderPath, folderFiles, lastFolderWatchCall>>
     /\ lastOp'.op = "readFail"
         => UNCHANGED <<sessionVars, lastFolderWatchCall>>]_vars

\* C28 as stated: once the handle of a subscription has been called, no further
\* callback is delivered for it, whether listen() had settled by then or not.
C28_Original ==
  [][\A eventName \in EventNames :
       subscriptions[eventName].unsubscribed
         => subscriptions'[eventName].delivered = subscriptions[eventName].delivered]_vars

SettleOps == {"readFileDone", "readFolderDone", "readFail", "readEntryFail"}

\* the calls in flight, without the mark of having been overtaken
Unmarked(reads) == [j \in DOMAIN reads |-> [reads[j] EXCEPT !.overtaken = FALSE]]

\* the calls in flight but the i-th
AllBut(reads, i) ==
  [j \in 1..(Len(reads) - 1) |-> IF j < i THEN reads[j] ELSE reads[j + 1]]

\* C25: while a read is in flight a further open operation is taken and starts its
\* own read; no step but the settling of a read takes a read out of flight, and it
\* takes out that read alone; a read that resolves is applied whatever else is in
\* flight and whichever read was requested first: the payload of a file read is
\* rendered and its path becomes currentFilePath, the payload of a folder read
\* becomes the folder and its listing. So the session ends as the read that
\* completes last leaves it.
C25_CompletionOrder ==
  /\ []((phase = "bound" /\ pendingReads # <<>> /\ CanRead)
          => \A path \in FilePaths :
               ENABLED OnExternalFileOpen(
                         [shape |-> "string", targetType |-> "file", path |-> path]))
  /\ [][/\ Len(pendingReads') >= Len(pendingReads)
             => SubSeq(pendingReads', 1, Len(pendingReads)) = pendingReads
        /\ Len(pendingReads') < Len(pendingReads)
             => /\ lastOp'.op \in SettleOps
                /\ \E i \in DOMAIN pendingReads :
                     Unmarked(pendingReads') = Unmarked(AllBut(pendingReads, i))
        /\ lastOp'.op = "readFileDone"
             => \A i \in DOMAIN pendingReads, payload \in FilePayloads :
                  ReadFileDone(i, payload)
                    => /\ currentFilePath' = payload.filePath
                       /\ preview' = DocPreview(payload.content)
                       /\ stepRenders' = <<DocPreview(payload.content)>>
                       /\ ~stepThrew'
        /\ lastOp'.op = "readFolderDone"
             => \A i \in DOMAIN pendingReads, payload \in FolderPayloads :
                  ReadFolderDone(i, payload)
                    => /\ currentOpenMode' = "folder"
                       /\ currentFolderPath' = payload.folderPath
                       /\ folderFiles' = payload.files
                       /\ ~stepThrew']_vars

\* the read requested first has completed last, after the other one, and its file
\* is the active one
C25_Witness ==
  /\ lastOp.op = "readFileDone"
  /\ stepStale
  /\ pendingReads = <<>>
  /\ currentFilePath # None
  /\ preview.kind = "doc"
  /\ stepRenders = <<preview>>

\* the startup and the open operations that await a read
NextRace ==
  \/ \E options \in StartupOptions : StartupOptionsArrive(options)
  \/ \E path \in FilePaths : SelectFolderEntry(path)
  \/ \E target \in OpenTargets : OnExternalFileOpen(target)
  \/ \E target \in OpenTargets : OnOpenOnLaunch(target)
  \/ \E target \in OpenTargets : ConsumePending(target)
  \/ \E i \in DOMAIN pendingReads, payload \in FilePayloads : ReadFileDone(i, payload)
  \/ \E i \in DOMAIN pendingReads : ReadFail(i)
  \/ \E i \in DOMAIN pendingReads, payload \in FolderPayloads : ReadFolderDone(i, payload)

\* a pending read settles: it resolves with a payload or it rejects
SettleSomeRead ==
  \E i \in DOMAIN pendingReads :
    \/ \E payload \in FilePayloads : ReadFileDone(i, payload)
    \/ ReadFail(i)
    \/ \E payload \in FolderPayloads : ReadFolderDone(i, payload)

\* initializeApp to the end of bindExternalOpenEvents, and the callbacks it registers
NextStartup ==
  \/ \E options \in StartupOptions : StartupOptionsArrive(options)
  \/ \E target \in OpenTargets : ConsumePending(target)
  \/ SettleSomeRead
  \/ \E target \in OpenTargets : OnExternalFileOpen(target)
  \/ \E payload \in FilePayloads : OnFileChanged(payload)
  \/ \E payload \in FolderPayloads : OnFolderChanged(payload)

\* the file loads (file dialog, folder entry, file-changed notification) and the
\* steps that lead to them, with content the converter may reject
NextFaulty ==
  \/ \E options \in StartupOptions : StartupOptionsArrive(options)
  \/ \E target \in OpenTargets : ConsumePending(target)
  \/ \E outcome \in DialogOutcomes, payload \in FilePayloads :
       OpenDesktopFileDialog(outcome, payload)
  \/ \E outcome \in DialogOutcomes, payload \in FolderPayloads :
       OpenDesktopFolderDialog(outcome, payload)
  \/ \E path \in FilePaths : SelectFolderEntry(path)
  \/ SettleSomeRead
  \/ \E payload \in FilePayloads : OnFileChanged(payload)

Spec == Init /\ [][Next]_vars

SpecFaulty == InitFaulty /\ [][NextFaulty]_vars

SpecWatchFails == InitWatchFails /\ [][Next]_vars

SpecRace == InitRace /\ [][NextRace]_vars

SpecEditor == InitEditor /\ [][NextEditor]_vars

SpecSubscription == InitSubscription /\ [][NextSubscription]_vars

SpecPlugin == InitPlugin /\ [][NextPlugin]_vars

SpecRefresh == InitScrollRatio /\ [][NextRefresh]_vars

\* startup runs: every await of initializeApp and of bindExternalOpenEvents settles
\* (getStartupOptions, consumePendingExternalOpenTarget, the reads), one way or the
\* other
SpecStartup ==
  /\ Init
  /\ [][NextStartup]_vars
  /\ WF_vars(\E options \in StartupOptions : StartupOptionsArrive(options))
  /\ WF_vars(\E target \in OpenTargets : ConsumePending(target))
  /\ WF_vars(SettleSomeRead)

SpecElectron == InitElectron /\ [][NextElectron]_vars

SpecGeometry == InitGeometry /\ [][NextGeometry]_vars

SpecScrollRatio == InitScrollRatio /\ [][NextScrollRatio]_vars
====
